---------------------------- MODULE Spec2Model ----------------------------
(***************************************************************************)
(* A state-machine model of analyze_acoustics.Analyzer: the constructor    *)
(* runs the enabled measurement stages one after the other over the table  *)
(* self.data, each stage visiting the rows in order, then drops the        *)
(* working columns and writes the table.  One action per constructor block *)
(* (option test, dependent-option test, column assignment, stage entry     *)
(* test) and one action per loop iteration of a stage.                     *)
(*                                                                         *)
(* The acoustic library (parselmouth / Praat) is outside the repository:   *)
(* its results are functions of an abstract sound chosen with the inputs,  *)
(* or a nondeterministic choice where the call is made on arguments the    *)
(* library does not define a result for.                                   *)
(***************************************************************************)
EXTENDS Integers, Sequences, FiniteSets, TLC

\* ------------------------------------------------------------------ bounds
MaxRows == 2
MaxSpeakerRows == 3

\* ----------------------------------------------------------------- options
OptVowel      == "vowel duration"
OptFormants   == "formant averages"
OptDispersion == "formant dispersions"
OptRms        == "rms"
OptTilt       == "spectral tilt"
OptCog        == "center of gravity"
OptWord       == "word duration"
OptHeights    == "relative target and peak height"
OptH1H2       == "h1-h2"

\* The order of the constructor's blocks.
StageOrder ==
  << OptVowel, OptFormants, OptDispersion, OptRms, OptTilt, OptCog,
     OptWord, OptHeights, OptH1H2 >>

Options == { StageOrder[k] : k \in 1..Len(StageOrder) }

\* ------------------------------------------------------------------- cells
\* A cell of the table: Null is NaN / None, Val(x) holds x.
Null == << >>
Val(x) == << x >>
IsNull(c) == c = << >>
Get(c) == c[1]

\* A float quotient a / b, kept exact.
Frac(a, b) == [num |-> a, den |-> b]

\* 12 * log2(a / b), kept as the ratio it is taken of.
Semitones(a, b) == [st_num |-> a, st_den |-> b]

\* The columns the constructor creates in collect_from_directory and for
\* sound_obj, and the columns the stages add.
BaseCols == {"speaker", "utterance", "filepath", "wavpath", "sound_obj"}
StageCols ==
  {"v1_start", "v1_end", "v1_duration", "textgrid",
   "f1", "f2", "f3", "formant_obj",
   "f1_f2_dispersion", "f2_f3_dispersion",
   "v1_rms", "v1_obj", "v1_tilt", "v1_cog",
   "tool_duration", "target_duration", "ratio_word_duration",
   "exc_target_low_end", "exc_peak_low_end", "pitch_obj", "h1_h2"}

EmptyRow == [c \in StageCols |-> Null]

\* row with the cells of asg (a function from some columns to cells) set.
SetCells(row, asg) ==
  [c \in StageCols |-> IF c \in DOMAIN asg THEN asg[c] ELSE row[c]]


\* ------------------------------------------------------------------ inputs
\* An annotation file (TextGrid) is a sequence of tiers; a tier has a name
\* and a sequence of items: intervals (t1, t2, label) or points (t1 = t2).
\* Times are whole seconds.
IntervalTier(name, bounds) ==
  [name |-> name, kind |-> "interval",
   items |-> [k \in 1..(Len(bounds) - 1) |->
                [t1 |-> bounds[k], t2 |-> bounds[k + 1], label |-> ""]]]

PointTier(name, points) ==
  [name |-> name, kind |-> "point",
   items |-> [k \in 1..Len(points) |->
                [t1 |-> points[k][1], t2 |-> points[k][1],
                 label |-> points[k][2]]]]

VowelA     == IntervalTier("Vowel", <<0, 1, 3, 4>>)
VowelB     == IntervalTier("Vowel", <<0, 2, 3, 4>>)
VowelTwo   == IntervalTier("Vowel", <<0, 2, 4>>)
WordA      == IntervalTier("Word", <<0, 1, 2, 3, 5, 6>>)
WordB      == IntervalTier("Word", <<0, 1, 3, 4, 5, 6>>)
WordFour   == IntervalTier("Word", <<0, 1, 2, 3, 4>>)
ToneA      == PointTier("f0", << <<1, "T">>, <<2, "H">>, <<3, "L%">> >>)
ToneB      == PointTier("f0", << <<2, "H">>, <<3, "T">>, <<4, "L%">> >>)
ToneNoPeak == PointTier("f0", << <<1, "T">>, <<2, "T">>, <<3, "L%">> >>)
ToneTwo    == PointTier("f0", << <<2, "H">>, <<3, "L%">> >>)
ToneTwoPeaks == PointTier("f0", << <<1, "H">>, <<2, "H">>, <<3, "L%">> >>)
PhoneTier  == IntervalTier("Phone", <<0, 2, 4>>)

\* An abstract sound: the formant means the library finds in it (Null:
\* undefined for that formant number) and its pitch at the times 1..4
\* (Null: unvoiced there).
Sound(id, f, pitch) == [id |-> id, f |-> f, pitch |-> pitch]

SoundA == Sound(1, << Val(500), Val(1500), Val(2500) >>,
                   << Val(150), Val(300), Val(140), Val(120) >>)
SoundB == Sound(2, << Val(640), Val(1200), Val(2900) >>,
                   << Val(200), Val(260), Val(180), Val(160) >>)
SoundNoF3 == Sound(3, << Val(450), Val(1700), Null >>,
                   << Val(150), Val(300), Val(140), Val(120) >>)
SoundOnlyF1 == Sound(4, << Val(600), Null, Null >>,
                   << Val(150), Val(300), Val(140), Val(120) >>)
SoundLowOnset == Sound(6, << Val(500), Val(1500), Val(2500) >>,
                   << Val(90), Val(300), Val(140), Val(120) >>)
SoundUnvoiced == Sound(5, << Val(700), Val(1300), Val(2700) >>,
                   << Val(150), Null, Val(140), Null >>)

NoSex == ""

\* --------------------------------------------------- the acoustic library
\* Formant.Get mean(n, t1, t2) of sound.to_formant_burg(maximum_formant):
\* the ceiling changes the track, hence the means.
LibFormantMean(snd, maxf, n) ==
  IF IsNull(snd.f[n]) THEN Null
  ELSE Val(Get(snd.f[n]) - (IF maxf = 4500 THEN 20 * n ELSE 0))

\* Pitch.get_value_at_time(t) of sound.to_pitch(50, 500).
LibPitchAt(snd, t) == snd.pitch[t]

\* Sound.extract_part(t1, t2): the segment is the sound and its range.
LibExtractPart(snd, t1, t2) == [snd |-> snd.id, from |-> t1, to |-> t2]

\* Results the model keeps symbolic: a measurement of a segment.
LibMeasure(op, seg) == [op |-> op, of |-> seg]

\* ------------------------------------------------------------------- state
VARIABLES
  config,     \* self.method_calls: the set of enabled options
  directory,  \* what config["directory"] is
  sexcol,     \* whether the table the stages run on carries a "sex" column
  infile,     \* the table at config["input_file"], Null when there is none
  outfile,    \* the file at config["output_file"] before the run
  files,      \* the collected utterances: speaker, utterance, TextGrid, sound
  cols,       \* the columns of self.data
  data,       \* the rows of self.data (the cells of the stages' columns)
  pc,         \* the constructor block being run, or how the run ended
  i,          \* 0 at a block's entry, else the loop iteration being run
  warns,      \* the warnings emitted so far, in order
  calls,      \* the files read and library measurements made so far
  err,        \* the exception that ended the run
  output      \* the table written to config["output_file"], Null before

vars ==
  << config, directory, sexcol, infile, outfile, files, cols, data, pc, i,
     warns, calls, err, output >>

inputs == << config, directory, sexcol, infile, outfile, files >>

NoError == [kind |-> "", stage |-> "", row |-> 0]

Rows == 1..Len(files)

\* The rows of one session directory are collected together (pd.concat of
\* one Series per session), and a file name is unique in its directory.
Grouped(fs) ==
  \A a, b, c \in 1..Len(fs) :
    (a < b /\ b < c /\ fs[a].speaker = fs[c].speaker)
      => fs[b].speaker = fs[a].speaker

\* Lines 206-209: the utterance is the file's name without ".TextGrid".
Names == << "1", "2", "3", "4", "5", "6" >>

\* The file at the output path: the input file itself (same path) or
\* another file, whose table is Null when no file is there.
OutputPath(same, table) == [same |-> same, table |-> table]

\* The tables of 1..n utterances over a pool of rows (speaker, TextGrid,
\* sex, sound); the utterance is the name of the file's number in the table.
Utterance(speaker, tiers, sex, snd) ==
  [speaker |-> speaker, tiers |-> tiers, sex |-> sex, snd |-> snd]

Numbered(t) ==
  [r \in DOMAIN t |->
     [speaker |-> t[r].speaker, utterance |-> Names[r], tiers |-> t[r].tiers,
      sex |-> t[r].sex, snd |-> t[r].snd]]

Tables(pool, n) ==
  { Numbered(t) : t \in { u \in UNION { [1..m -> pool] : m \in 1..n } :
                            Grouped(u) } }

\* Before the constructor runs.
Unstarted ==
  /\ cols = {}
  /\ data = << >>
  /\ pc = "start"
  /\ i = 0
  /\ warns = << >>
  /\ calls = << >>
  /\ err = NoError
  /\ output = Null

InitWith(configs, directories, sexcols, infiles, tables) ==
  /\ config \in configs
  /\ directory \in directories
  /\ sexcol \in sexcols
  /\ infile \in infiles
  /\ outfile = OutputPath(FALSE, Null)
  /\ IF directory = "valid" THEN files \in tables ELSE files = << >>
  /\ (~sexcol => \A r \in Rows : files[r].sex = NoSex)
  /\ cols = {}
  /\ data = << >>
  /\ pc = "start"
  /\ i = 0
  /\ warns = << >>
  /\ calls = << >>
  /\ err = NoError
  /\ output = Null

\* ------------------------------------------------------------ control flow
StageIndex(stage) == CHOOSE k \in 1..Len(StageOrder) : StageOrder[k] = stage

\* The next block whose option is enabled; after the last one the
\* constructor drops the working columns and writes the table.
FirstEnabledAfter(k) ==
  LET later == { j \in (k + 1)..Len(StageOrder) : StageOrder[j] \in config }
  IN  IF later = {} THEN "write"
      ELSE StageOrder[CHOOSE j \in later : \A l \in later : j <= l]

\* Prerequisite without the test of the rms block.
PrerequisiteWithoutRms(stage) ==
  CASE stage = OptDispersion -> OptFormants
    [] stage \in {OptTilt, OptCog} -> OptVowel
    [] OTHER -> ""

\* The dependent-option tests of the constructor's blocks (lines 59, 71,
\* 81, 91): the option a block insists on, "" when it has no such test.
Prerequisite(stage) ==
  CASE stage = OptDispersion -> OptFormants
    [] stage \in {OptRms, OptTilt, OptCog} -> OptVowel
    [] OTHER -> ""

PrerequisiteMissing(stage) ==
  Prerequisite(stage) # "" /\ Prerequisite(stage) \notin config

\* An uncaught exception ends the constructor: nothing is written.
Raise(kind) ==
  /\ pc' = "aborted"
  /\ i' = i
  /\ err' = [kind |-> kind, stage |-> pc, row |-> i]

\* A stage's entry test passed: its loop starts (or is over at once).
EnterLoop(n) ==
  /\ err' = err
  /\ IF n = 0
       THEN pc' = FirstEnabledAfter(StageIndex(pc)) /\ i' = 0
       ELSE pc' = pc /\ i' = 1

\* A loop iteration ended normally.
Advance(n) ==
  /\ err' = err
  /\ IF i < n
       THEN pc' = pc /\ i' = i + 1
       ELSE pc' = FirstEnabledAfter(StageIndex(pc)) /\ i' = 0

Warning(stage, kind, row) ==
  [stage |-> stage, kind |-> kind, row |-> row,
   speaker |-> files[row].speaker, utterance |-> files[row].utterance]

Call(op, row, arg) == [stage |-> pc, op |-> op, row |-> row, arg |-> arg]

\* ------------------------------------------------------------ constructor
\* os.path.exists(config["directory"]): None is a TypeError of os.stat, any
\* other value that names no path gives False; True is file descriptor 1.
DirectoryExists(d) == d \in {"valid", "true"}

\* collect_from_directory's own tests.
DirectoryIsString(d) == d \in {"valid", "missing"}

\* Lines 25-43: the configuration, the directory, the collected table and
\* the sound of every row.
Start ==
  /\ pc = "start"
  /\ UNCHANGED << inputs, warns, output >>
  /\ IF directory = "null" THEN
       Raise("TypeError") /\ UNCHANGED << cols, data, calls >>
     ELSE IF ~DirectoryExists(directory) THEN
       Raise("ValueError") /\ UNCHANGED << cols, data, calls >>
     ELSE IF config = {} THEN
       /\ pc' = "noop" /\ i' = 0 /\ err' = err
       /\ UNCHANGED << cols, data, calls >>
     ELSE IF ~DirectoryIsString(directory) THEN
       Raise("TypeError") /\ UNCHANGED << cols, data, calls >>
     ELSE
       /\ cols' = BaseCols \cup (IF sexcol THEN {"sex"} ELSE {})
       /\ data' = [r \in Rows |-> EmptyRow]
       /\ calls' = [r \in Rows |-> Call("Sound", r, Null)]
       /\ pc' = FirstEnabledAfter(0)
       /\ i' = 0
       /\ err' = err

\* assign(col=NaN, ...): the columns exist and hold NaN in every row.
Assign(newcols) ==
  /\ cols' = cols \cup newcols
  /\ data' = [r \in DOMAIN data |->
                SetCells(data[r], [c \in newcols |-> Null])]

\* --------------------------------------------------------- vowel duration
VowelCols == {"v1_start", "v1_end", "v1_duration", "textgrid"}

\* vowel_scan taking the duration from the end to the start.
RECURSIVE vowel_scan_reversed(_, _, _)
vowel_scan_reversed(tiers, k, st) ==
  IF k > Len(tiers) THEN st
  ELSE IF tiers[k].name # "Vowel" THEN vowel_scan_reversed(tiers, k + 1, st)
  ELSE IF Len(tiers[k].items) = 3 THEN
    vowel_scan_reversed(tiers, k + 1,
      [found |-> TRUE, warned |-> st.warned,
       asg |-> [c \in VowelCols |->
                  CASE c = "v1_start" -> Val(tiers[k].items[2].t1)
                    [] c = "v1_end" -> Val(tiers[k].items[2].t2)
                    [] c = "v1_duration" ->
                         Val((tiers[k].items[2].t1
                                - tiers[k].items[2].t2) * 1000)
                    [] OTHER -> Val("TextGrid")]])
  ELSE
    vowel_scan_reversed(tiers, k + 1,
      [found |-> TRUE, warned |-> st.warned + 1,
       asg |-> [c \in VowelCols |-> Null]])

\* vowel_scan with a tier of another count only warning.
RECURSIVE vowel_scan_keeping(_, _, _)
vowel_scan_keeping(tiers, k, st) ==
  IF k > Len(tiers) THEN st
  ELSE IF tiers[k].name # "Vowel" THEN vowel_scan_keeping(tiers, k + 1, st)
  ELSE IF Len(tiers[k].items) = 3 THEN
    vowel_scan_keeping(tiers, k + 1,
      [found |-> TRUE, warned |-> st.warned,
       asg |-> [c \in VowelCols |->
                  CASE c = "v1_start" -> Val(tiers[k].items[2].t1)
                    [] c = "v1_end" -> Val(tiers[k].items[2].t2)
                    [] c = "v1_duration" ->
                         Val((tiers[k].items[2].t2
                                - tiers[k].items[2].t1) * 1000)
                    [] OTHER -> Val("TextGrid")]])
  ELSE
    vowel_scan_keeping(tiers, k + 1,
      [found |-> TRUE, warned |-> st.warned + 1, asg |-> st.asg])

\* Lines 243-274: the tiers in order; every tier named "Vowel" assigns the
\* row's four cells again, and warns when it has not 3 intervals.
RECURSIVE vowel_scan(_, _, _)
vowel_scan(tiers, k, st) ==
  IF k > Len(tiers) THEN st
  ELSE IF tiers[k].name # "Vowel" THEN vowel_scan(tiers, k + 1, st)
  ELSE IF Len(tiers[k].items) = 3 THEN
    LET v1_start == tiers[k].items[2].t1
        v1_end   == tiers[k].items[2].t2
        v1_duration == (v1_end - v1_start) * 1000
    IN  vowel_scan(tiers, k + 1,
          [found |-> TRUE, warned |-> st.warned,
           asg |-> [c \in VowelCols |->
                      CASE c = "v1_start" -> Val(v1_start)
                        [] c = "v1_end" -> Val(v1_end)
                        [] c = "v1_duration" -> Val(v1_duration)
                        [] OTHER -> Val("TextGrid")]])
  ELSE
    vowel_scan(tiers, k + 1,
      [found |-> TRUE, warned |-> st.warned + 1,
       asg |-> [c \in VowelCols |->
                  IF c = "textgrid" THEN Val("TextGrid") ELSE Null]])

\* No cell assigned.
NoCells == [c \in {} |-> Null]

ScanStart == [found |-> FALSE, warned |-> 0, asg |-> NoCells]

\* n copies of w.
Repeat(w, n) == [k \in 1..n |-> w]

\* Lines 45-49 and the entry test of get_vowel_duration (229, 288).
init_vowel_duration ==
  /\ pc = OptVowel /\ i = 0
  /\ UNCHANGED << inputs, warns, calls, output >>
  /\ Assign(VowelCols)
  /\ IF "filepath" \in cols'
       THEN EnterLoop(Len(data))
       ELSE Raise("TypeError")

\* One iteration of get_vowel_duration's loop (lines 231-284).
get_vowel_duration ==
  /\ pc = OptVowel /\ i \in 1..Len(data)
  /\ UNCHANGED << inputs, cols, output >>
  /\ LET st == vowel_scan(files[i].tiers, 1, ScanStart)
     IN  /\ data' = [data EXCEPT ![i] = SetCells(@, st.asg)]
         /\ warns' = warns
              \o Repeat(Warning(OptVowel, "annotation", i), st.warned)
              \o (IF st.found THEN << >>
                  ELSE << Warning(OptVowel, "tier missing", i) >>)
         /\ calls' = Append(calls, Call("TextGrid", i, Null))
  /\ Advance(Len(data))

\* ------------------------------------------------------- formant averages
FormantCols == {"f1", "f2", "f3", "formant_obj"}

\* Lines 312-327: the formant track's ceiling; Null is formant_obj = None.
MaximumFormant(hasSex, sex) ==
  IF hasSex
    THEN (IF sex = "m" THEN Val(4500)
          ELSE IF sex = "f" THEN Val(5500)
          ELSE Null)
    ELSE Val(5500)

\* Lines 51-55 and the entry test of get_formants (299, 365).
init_formant_averages ==
  /\ pc = OptFormants /\ i = 0
  /\ UNCHANGED << inputs, warns, calls, output >>
  /\ Assign(FormantCols)
  /\ IF "sound_obj" \in cols'
       THEN EnterLoop(Len(data))
       ELSE Raise("TypeError")

\* get_formants without the test of v1_start: every row is measured.
get_formants_unguarded ==
  /\ pc = OptFormants /\ i \in 1..Len(data)
  /\ UNCHANGED << inputs, cols, output >>
  /\ LET snd  == files[i].snd
         maxf == MaximumFormant("sex" \in cols, files[i].sex)
     IN  IF "v1_start" \notin cols THEN
           /\ Raise("KeyError")
           /\ UNCHANGED << data, warns, calls >>
         ELSE IF IsNull(maxf) THEN
           /\ Raise("TypeError")
           /\ UNCHANGED << data, warns, calls >>
         ELSE
           /\ data' = [data EXCEPT ![i] = SetCells(@,
                [c \in FormantCols |->
                   CASE c = "f1" -> LibFormantMean(snd, Get(maxf), 1)
                     [] c = "f2" -> LibFormantMean(snd, Get(maxf), 2)
                     [] c = "f3" -> LibFormantMean(snd, Get(maxf), 3)
                     [] OTHER -> maxf])]
           /\ calls' = Append(calls, Call("to_formant_burg", i, maxf))
           /\ UNCHANGED warns
           /\ Advance(Len(data))

\* One iteration of get_formants's loop (lines 301-361).
get_formants ==
  /\ pc = OptFormants /\ i \in 1..Len(data)
  /\ UNCHANGED << inputs, cols, output >>
  /\ LET row  == data[i]
         snd  == files[i].snd
         maxf == MaximumFormant("sex" \in cols, files[i].sex)
     IN  IF "v1_start" \notin cols THEN
           \* row["v1_start"] of a row without that column
           /\ Raise("KeyError")
           /\ UNCHANGED << data, warns, calls >>
         ELSE IF IsNull(row["v1_start"]) THEN
           /\ warns' = Append(warns, Warning(OptFormants, "skipped", i))
           /\ UNCHANGED << data, calls >>
           /\ Advance(Len(data))
         ELSE IF "v1_end" \notin cols THEN
           /\ Raise("KeyError")
           /\ calls' = (IF IsNull(maxf) THEN calls
                        ELSE Append(calls, Call("to_formant_burg", i, maxf)))
           /\ UNCHANGED << data, warns >>
         ELSE IF IsNull(maxf) THEN
           \* praat.call(None, "Get mean", ...)
           /\ Raise("TypeError")
           /\ UNCHANGED << data, warns, calls >>
         ELSE
           /\ data' = [data EXCEPT ![i] = SetCells(@,
                [c \in FormantCols |->
                   CASE c = "f1" -> LibFormantMean(snd, Get(maxf), 1)
                     [] c = "f2" -> LibFormantMean(snd, Get(maxf), 2)
                     [] c = "f3" -> LibFormantMean(snd, Get(maxf), 3)
                     [] OTHER -> maxf])]
           /\ calls' = Append(calls, Call("to_formant_burg", i, maxf))
           /\ UNCHANGED warns
           /\ Advance(Len(data))

\* ---------------------------------------------------- formant dispersions
DispersionCols == {"f1_f2_dispersion", "f2_f3_dispersion"}

\* self.data["speaker"].unique(): the speakers in order of first appearance.
RECURSIVE UniqueSpeakers(_, _)
UniqueSpeakers(fs, k) ==
  IF k > Len(fs) THEN << >>
  ELSE IF \E j \in 1..(k - 1) : fs[j].speaker = fs[k].speaker
    THEN UniqueSpeakers(fs, k + 1)
    ELSE << fs[k].speaker >> \o UniqueSpeakers(fs, k + 1)

\* The rows of a speaker, in table order.
SpeakerRows(speaker) == { r \in Rows : files[r].speaker = speaker }

\* list(utterances[col].dropna()): the speaker's non-null values of a
\* column, in table order.
RECURSIVE DropNa(_, _, _, _)
DropNa(table, speaker, col, k) ==
  IF k > Len(table) THEN << >>
  ELSE IF files[k].speaker = speaker /\ ~IsNull(table[k][col])
    THEN << Get(table[k][col]) >> \o DropNa(table, speaker, col, k + 1)
    ELSE DropNa(table, speaker, col, k + 1)

\* sum([hi[k] - lo[k] for k in range(n)]), both lists at least n long.
RECURSIVE SumDiff(_, _, _)
SumDiff(hi, lo, n) ==
  IF n = 0 THEN 0 ELSE (hi[n] - lo[n]) + SumDiff(hi, lo, n - 1)

Max3(a, b, c) ==
  IF a >= b /\ a >= c THEN a ELSE IF b >= c THEN b ELSE c

\* The divisor taken to be the number of values.
DivisorCount(formant_count) == formant_count

\* Lines 407-412: the divisor of both dispersions.
Divisor(formant_count) == formant_count - 1

\* SetSpeakerCells writing the speaker's first row only.
SetFirstSpeakerCell(table, speaker, asg) ==
  [r \in DOMAIN table |->
     IF files[r].speaker = speaker
          /\ \A q \in 1..(r - 1) : files[q].speaker # speaker
       THEN SetCells(table[r], asg)
       ELSE table[r]]

\* Lines 414-419: self.data.loc[self.data["speaker"] == speaker, col] = v.
SetSpeakerCells(table, speaker, asg) ==
  [r \in DOMAIN table |->
     IF files[r].speaker = speaker THEN SetCells(table[r], asg)
     ELSE table[r]]

\* Lines 57-67 and the entry test of get_formant_dispersions (376, 421).
init_formant_dispersions ==
  /\ pc = OptDispersion /\ i = 0
  /\ UNCHANGED << inputs, warns, calls, output >>
  /\ IF PrerequisiteMissing(OptDispersion) THEN
       Raise("Exception") /\ UNCHANGED << cols, data >>
     ELSE
       /\ Assign(DispersionCols)
       /\ IF {"f1", "f2", "f3"} \cup DispersionCols \subseteq cols'
            THEN EnterLoop(Len(UniqueSpeakers(files, 1)))
            ELSE Raise("TypeError")

\* One iteration of get_formant_dispersions's loop over the speakers
\* (lines 380-419).
get_formant_dispersions ==
  /\ pc = OptDispersion /\ i \in 1..Len(UniqueSpeakers(files, 1))
  /\ UNCHANGED << inputs, cols, calls, output >>
  /\ LET speaker == UniqueSpeakers(files, 1)[i]
         f1s == DropNa(data, speaker, "f1", 1)
         f2s == DropNa(data, speaker, "f2", 1)
         f3s == DropNa(data, speaker, "f3", 1)
         formant_count == Max3(Len(f1s), Len(f2s), Len(f3s))
         unequal == ~(Len(f1s) = Len(f2s) /\ Len(f2s) = Len(f3s))
         missing == formant_count # Cardinality(SpeakerRows(speaker))
         w == (IF unequal
                 THEN << [stage |-> OptDispersion, kind |-> "unequal counts",
                          row |-> i, speaker |-> "", utterance |-> ""] >>
                 ELSE << >>)
              \o (IF missing
                 THEN << [stage |-> OptDispersion, kind |-> "no formants",
                          row |-> i, speaker |-> "", utterance |-> ""] >>
                 ELSE << >>)
     IN  /\ warns' = warns \o w
         /\ IF Len(f1s) < formant_count \/ Len(f2s) < formant_count THEN
              Raise("IndexError") /\ UNCHANGED data
            ELSE IF Divisor(formant_count) = 0 THEN
              Raise("ZeroDivisionError") /\ UNCHANGED data
            ELSE IF Len(f3s) < formant_count THEN
              Raise("IndexError") /\ UNCHANGED data
            ELSE
              /\ data' = SetSpeakerCells(data, speaker,
                   [c \in DispersionCols |->
                      IF c = "f1_f2_dispersion"
                        THEN Val(Frac(SumDiff(f2s, f1s, formant_count),
                                      Divisor(formant_count)))
                        ELSE Val(Frac(SumDiff(f3s, f2s, formant_count),
                                      Divisor(formant_count)))])
              /\ Advance(Len(UniqueSpeakers(files, 1)))

\* --------------------------------------------------------------------- rms
\* init_rms assigning the column before its dependent-option test.
init_rms_assigning_first ==
  /\ pc = OptRms /\ i = 0
  /\ UNCHANGED << inputs, warns, calls, output >>
  /\ Assign({"v1_rms"})
  /\ IF PrerequisiteMissing(OptRms) THEN Raise("Exception")
     ELSE IF {"v1_rms", "v1_start", "v1_end", "sound_obj"} \subseteq cols'
       THEN EnterLoop(Len(data))
       ELSE Raise("TypeError")

\* Lines 69-77 and the entry test of get_rms (429, 453).
init_rms ==
  /\ pc = OptRms /\ i = 0
  /\ UNCHANGED << inputs, warns, calls, output >>
  /\ IF PrerequisiteMissing(OptRms) THEN
       Raise("Exception") /\ UNCHANGED << cols, data >>
     ELSE
       /\ Assign({"v1_rms"})
       /\ IF {"v1_rms", "v1_start", "v1_end", "sound_obj"} \subseteq cols'
            THEN EnterLoop(Len(data))
            ELSE Raise("TypeError")

\* Line 440: isinstance(row["sound_obj"], parselmouth.Sound); the cell was
\* set by parselmouth.Sound(row["wavpath"]) for every row (lines 41-43).
SoundObjIsSound(r) == r \in Rows

\* What get_root_mean_square(from_time=nan, to_time=nan) can do: the
\* library defines no result for an undefined range.
NullRangeOutcomes == {"raises", "undefined", "number"}

\* One iteration of get_rms's loop (lines 433-451).
get_rms ==
  /\ pc = OptRms /\ i \in 1..Len(data)
  /\ UNCHANGED << inputs, cols, output >>
  /\ LET row == data[i]
         snd == files[i].snd
         nullrange == IsNull(row["v1_start"]) \/ IsNull(row["v1_end"])
     IN  IF ~SoundObjIsSound(i) THEN
           /\ warns' = Append(warns, Warning(OptRms, "no vowel", i))
           /\ UNCHANGED << data, calls >>
           /\ Advance(Len(data))
         ELSE IF nullrange THEN
           /\ calls' = Append(calls,
                Call("get_root_mean_square", i, Val("null range")))
           /\ UNCHANGED warns
           /\ \E outcome \in NullRangeOutcomes :
                CASE outcome = "raises" ->
                       Raise("PraatError") /\ UNCHANGED data
                  [] outcome = "undefined" ->
                       UNCHANGED data /\ Advance(Len(data))
                  [] OTHER ->
                       /\ data' = [data EXCEPT ![i]["v1_rms"] =
                                     Val(LibMeasure("rms", Null))]
                       /\ Advance(Len(data))
         ELSE
           /\ data' = [data EXCEPT ![i]["v1_rms"] =
                Val(LibMeasure("rms",
                  Val(LibExtractPart(snd, Get(row["v1_start"]),
                                     Get(row["v1_end"])))))]
           /\ calls' = Append(calls,
                Call("get_root_mean_square", i, Val("range")))
           /\ UNCHANGED warns
           /\ Advance(Len(data))

\* ----------------------------------------------------------- spectral tilt
\* Lines 79-87 and the entry test of get_spectral_tilt (464, 494).
init_spectral_tilt ==
  /\ pc = OptTilt /\ i = 0
  /\ UNCHANGED << inputs, warns, calls, output >>
  /\ IF PrerequisiteMissing(OptTilt) THEN
       Raise("Exception") /\ UNCHANGED << cols, data >>
     ELSE
       /\ Assign({"v1_obj", "v1_tilt"})
       /\ IF {"sound_obj", "v1_start", "v1_end", "v1_obj", "v1_tilt"}
               \subseteq cols'
            THEN EnterLoop(Len(data))
            ELSE Raise("TypeError")

\* get_spectral_tilt extracting a segment whatever the row's v1_start.
get_spectral_tilt_unguarded ==
  /\ pc = OptTilt /\ i \in 1..Len(data)
  /\ UNCHANGED << inputs, cols, warns, output >>
  /\ LET row == data[i]
         v1_obj == IF IsNull(row["v1_start"]) THEN Null
                   ELSE Val(LibExtractPart(files[i].snd,
                              Get(row["v1_start"]), Get(row["v1_end"])))
     IN  /\ data' = [data EXCEPT ![i] = SetCells(@,
              [c \in {"v1_obj", "v1_tilt"} |->
                 IF c = "v1_obj" THEN v1_obj
                 ELSE Val(LibMeasure("mean C1", v1_obj))])]
         /\ calls' = Append(calls, Call("extract_part", i, Val("range")))
  /\ Advance(Len(data))

\* One iteration of get_spectral_tilt's loop (lines 468-492).
get_spectral_tilt ==
  /\ pc = OptTilt /\ i \in 1..Len(data)
  /\ UNCHANGED << inputs, cols, output >>
  /\ LET row == data[i]
         v1_obj == LibExtractPart(files[i].snd, Get(row["v1_start"]),
                                  Get(row["v1_end"]))
     IN  IF SoundObjIsSound(i) /\ ~IsNull(row["v1_start"]) THEN
           /\ data' = [data EXCEPT ![i] = SetCells(@,
                [c \in {"v1_obj", "v1_tilt"} |->
                   IF c = "v1_obj" THEN Val(v1_obj)
                   ELSE Val(LibMeasure("mean C1", Val(v1_obj)))])]
           /\ calls' = Append(calls, Call("extract_part", i, Val("range")))
           /\ UNCHANGED warns
         ELSE
           /\ warns' = Append(warns, Warning(OptTilt, "no vowel", i))
           /\ UNCHANGED << data, calls >>
  /\ Advance(Len(data))

\* ------------------------------------------------------- center of gravity
\* Lines 89-101 and the entry test of get_center_of_gravity (504, 537).
init_center_of_gravity ==
  /\ pc = OptCog /\ i = 0
  /\ UNCHANGED << inputs, warns, calls, output >>
  /\ IF PrerequisiteMissing(OptCog) THEN
       Raise("Exception") /\ UNCHANGED << cols, data >>
     ELSE
       /\ Assign(IF OptTilt \in config THEN {"v1_cog"}
                 ELSE {"v1_obj", "v1_cog"})
       /\ IF {"sound_obj", "v1_start", "v1_end", "v1_obj", "v1_cog"}
               \subseteq cols'
            THEN EnterLoop(Len(data))
            ELSE Raise("TypeError")

\* get_center_of_gravity measuring the whole sound where the row holds a
\* segment of the spectral-tilt stage.
get_center_of_gravity_of_sound ==
  /\ pc = OptCog /\ i \in 1..Len(data)
  /\ UNCHANGED << inputs, cols, output >>
  /\ LET row == data[i]
         v1_obj == LibExtractPart(files[i].snd, Get(row["v1_start"]),
                                  Get(row["v1_end"]))
     IN  IF ~IsNull(row["v1_obj"]) THEN
           /\ data' = [data EXCEPT ![i]["v1_cog"] =
                Val(LibMeasure("centre of gravity",
                  Val(LibExtractPart(files[i].snd, 0, 4))))]
           /\ UNCHANGED << warns, calls >>
         ELSE IF ~IsNull(row["v1_start"]) THEN
           /\ data' = [data EXCEPT ![i]["v1_cog"] =
                Val(LibMeasure("centre of gravity", Val(v1_obj)))]
           /\ calls' = Append(calls, Call("extract_part", i, Val("range")))
           /\ UNCHANGED warns
         ELSE
           /\ warns' = Append(warns, Warning(OptCog, "no vowel", i))
           /\ UNCHANGED << data, calls >>
  /\ Advance(Len(data))

\* One iteration of get_center_of_gravity's loop (lines 508-535).
get_center_of_gravity ==
  /\ pc = OptCog /\ i \in 1..Len(data)
  /\ UNCHANGED << inputs, cols, output >>
  /\ LET row == data[i]
         v1_obj == LibExtractPart(files[i].snd, Get(row["v1_start"]),
                                  Get(row["v1_end"]))
     IN  IF ~IsNull(row["v1_obj"]) THEN
           /\ data' = [data EXCEPT ![i]["v1_cog"] =
                Val(LibMeasure("centre of gravity", row["v1_obj"]))]
           /\ UNCHANGED << warns, calls >>
         ELSE IF ~IsNull(row["v1_start"]) THEN
           /\ data' = [data EXCEPT ![i]["v1_cog"] =
                Val(LibMeasure("centre of gravity", Val(v1_obj)))]
           /\ calls' = Append(calls, Call("extract_part", i, Val("range")))
           /\ UNCHANGED warns
         ELSE
           /\ warns' = Append(warns, Warning(OptCog, "no vowel", i))
           /\ UNCHANGED << data, calls >>
  /\ Advance(Len(data))

\* ----------------------------------------------------------- word duration
WordCols == {"tool_duration", "target_duration", "ratio_word_duration"}

\* word_scan with a tier of another count passed over in silence.
RECURSIVE word_scan_silent(_, _, _)
word_scan_silent(tiers, k, st) ==
  IF k > Len(tiers) THEN st
  ELSE IF tiers[k].name # "Word" THEN word_scan_silent(tiers, k + 1, st)
  ELSE IF Len(tiers[k].items) = 5 THEN
    LET tool_duration ==
          (tiers[k].items[2].t2 - tiers[k].items[2].t1) * 1000
        target_duration ==
          (tiers[k].items[4].t2 - tiers[k].items[4].t1) * 1000
    IN  word_scan_silent(tiers, k + 1,
          [found |-> TRUE, warned |-> st.warned,
           asg |-> [c \in WordCols |->
                      CASE c = "tool_duration" -> Val(tool_duration)
                        [] c = "target_duration" -> Val(target_duration)
                        [] OTHER ->
                             Val(Frac(tool_duration, target_duration))]])
  ELSE
    word_scan_silent(tiers, k + 1,
      [found |-> TRUE, warned |-> st.warned, asg |-> st.asg])

\* word_scan taking the target word from interval 3.
RECURSIVE word_scan_third(_, _, _)
word_scan_third(tiers, k, st) ==
  IF k > Len(tiers) THEN st
  ELSE IF tiers[k].name # "Word" THEN word_scan_third(tiers, k + 1, st)
  ELSE IF Len(tiers[k].items) = 5 THEN
    LET tool_duration ==
          (tiers[k].items[2].t2 - tiers[k].items[2].t1) * 1000
        target_duration ==
          (tiers[k].items[3].t2 - tiers[k].items[3].t1) * 1000
    IN  word_scan_third(tiers, k + 1,
          [found |-> TRUE, warned |-> st.warned,
           asg |-> [c \in WordCols |->
                      CASE c = "tool_duration" -> Val(tool_duration)
                        [] c = "target_duration" -> Val(target_duration)
                        [] OTHER ->
                             Val(Frac(tool_duration, target_duration))]])
  ELSE
    word_scan_third(tiers, k + 1,
      [found |-> TRUE, warned |-> st.warned + 1, asg |-> st.asg])

\* word_scan with a tier of another count resetting the row's cells.
RECURSIVE word_scan_resetting(_, _, _)
word_scan_resetting(tiers, k, st) ==
  IF k > Len(tiers) THEN st
  ELSE IF tiers[k].name # "Word" THEN word_scan_resetting(tiers, k + 1, st)
  ELSE IF Len(tiers[k].items) = 5 THEN
    LET tool_duration ==
          (tiers[k].items[2].t2 - tiers[k].items[2].t1) * 1000
        target_duration ==
          (tiers[k].items[4].t2 - tiers[k].items[4].t1) * 1000
    IN  word_scan_resetting(tiers, k + 1,
          [found |-> TRUE, warned |-> st.warned,
           asg |-> [c \in WordCols |->
                      CASE c = "tool_duration" -> Val(tool_duration)
                        [] c = "target_duration" -> Val(target_duration)
                        [] OTHER ->
                             Val(Frac(tool_duration, target_duration))]])
  ELSE
    word_scan_resetting(tiers, k + 1,
      [found |-> TRUE, warned |-> st.warned + 1,
       asg |-> [c \in WordCols |-> Null]])

\* Lines 567-610: every tier named "Word" with 5 intervals assigns the
\* row's three cells; one with another count only warns.  An interval of
\* a TextGrid has t1 < t2, so target_duration is not 0.
RECURSIVE word_scan(_, _, _)
word_scan(tiers, k, st) ==
  IF k > Len(tiers) THEN st
  ELSE IF tiers[k].name # "Word" THEN word_scan(tiers, k + 1, st)
  ELSE IF Len(tiers[k].items) = 5 THEN
    LET tool_duration ==
          (tiers[k].items[2].t2 - tiers[k].items[2].t1) * 1000
        target_duration ==
          (tiers[k].items[4].t2 - tiers[k].items[4].t1) * 1000
    IN  word_scan(tiers, k + 1,
          [found |-> TRUE, warned |-> st.warned,
           asg |-> [c \in WordCols |->
                      CASE c = "tool_duration" -> Val(tool_duration)
                        [] c = "target_duration" -> Val(target_duration)
                        [] OTHER ->
                             Val(Frac(tool_duration, target_duration))]])
  ELSE
    word_scan(tiers, k + 1,
      [found |-> TRUE, warned |-> st.warned + 1, asg |-> st.asg])

\* Lines 103-110 and the entry test of get_word_durations (546, 622).
init_word_durations ==
  /\ pc = OptWord /\ i = 0
  /\ UNCHANGED << inputs, warns, calls, output >>
  /\ Assign(WordCols)
  /\ IF {"filepath"} \cup WordCols \subseteq cols'
       THEN EnterLoop(Len(data))
       ELSE Raise("TypeError")

\* One iteration of get_word_durations's loop (lines 555-620).
get_word_durations ==
  /\ pc = OptWord /\ i \in 1..Len(data)
  /\ UNCHANGED << inputs, cols, output >>
  /\ LET st == word_scan(files[i].tiers, 1, ScanStart)
     IN  /\ data' = [data EXCEPT ![i] = SetCells(@, st.asg)]
         /\ warns' = warns
              \o Repeat(Warning(OptWord, "annotation", i), st.warned)
              \o (IF st.found THEN << >>
                  ELSE << Warning(OptWord, "tier missing", i) >>)
         /\ calls' = Append(calls, Call("TextGrid", i, Null))
  /\ Advance(Len(data))

\* ------------------------------------------------- relative pitch heights
HeightCols == {"exc_target_low_end", "exc_peak_low_end", "pitch_obj"}

\* 12 * math.log2(a / b) of two pitch values; nan when one is nan.
Excursion(a, b) ==
  IF IsNull(a) \/ IsNull(b) THEN Null ELSE Val(Semitones(Get(a), Get(b)))

\* The peak taken to be the second point whatever the labels.
PeakIndexSecond(items) == 2

\* labels.index("H"): the 0-based place of the first "H" + 1; 0 when the
\* list holds none (a ValueError).
PeakIndex(items) ==
  IF \E p \in 1..Len(items) : items[p].label = "H"
    THEN CHOOSE p \in 1..Len(items) :
           /\ items[p].label = "H"
           /\ \A q \in 1..(p - 1) : items[q].label # "H"
    ELSE 0

\* tone_scan counting only a tier with 3 points as the "f0" tier found.
RECURSIVE tone_scan_unfound(_, _, _, _)
tone_scan_unfound(tiers, snd, k, st) ==
  IF k > Len(tiers) \/ st.failed THEN st
  ELSE IF tiers[k].name # "f0" THEN tone_scan_unfound(tiers, snd, k + 1, st)
  ELSE IF Len(tiers[k].items) = 3 THEN
    LET items == tiers[k].items
        f0s   == [p \in 1..3 |-> LibPitchAt(snd, items[p].t1)]
        targ_vs_low == Excursion(f0s[2], f0s[3])
        peak  == PeakIndex(items)
    IN  IF peak = 0
          THEN [found |-> TRUE, failed |-> TRUE,
                pitched |-> st.pitched + 1, asg |-> st.asg]
          ELSE tone_scan_unfound(tiers, snd, k + 1,
                 [found |-> TRUE, failed |-> FALSE,
                  pitched |-> st.pitched + 1,
                  asg |-> [c \in HeightCols |->
                             CASE c = "exc_target_low_end" -> targ_vs_low
                               [] c = "exc_peak_low_end" ->
                                    Excursion(f0s[peak], f0s[3])
                               [] OTHER -> Val("Pitch")]])
  ELSE
    tone_scan_unfound(tiers, snd, k + 1, st)

\* tone_scan taking the target excursion from the first point.
RECURSIVE tone_scan_from_target(_, _, _, _)
tone_scan_from_target(tiers, snd, k, st) ==
  IF k > Len(tiers) \/ st.failed THEN st
  ELSE IF tiers[k].name # "f0"
    THEN tone_scan_from_target(tiers, snd, k + 1, st)
  ELSE IF Len(tiers[k].items) = 3 THEN
    LET items == tiers[k].items
        f0s   == [p \in 1..3 |-> LibPitchAt(snd, items[p].t1)]
        targ_vs_low == Excursion(f0s[1], f0s[3])
        peak  == PeakIndex(items)
    IN  IF peak = 0
          THEN [found |-> TRUE, failed |-> TRUE,
                pitched |-> st.pitched + 1, asg |-> st.asg]
          ELSE tone_scan_from_target(tiers, snd, k + 1,
                 [found |-> TRUE, failed |-> FALSE,
                  pitched |-> st.pitched + 1,
                  asg |-> [c \in HeightCols |->
                             CASE c = "exc_target_low_end" -> targ_vs_low
                               [] c = "exc_peak_low_end" ->
                                    Excursion(f0s[peak], f0s[3])
                               [] OTHER -> Val("Pitch")]])
  ELSE
    tone_scan_from_target(tiers, snd, k + 1,
      [found |-> TRUE, failed |-> st.failed, pitched |-> st.pitched,
       asg |-> st.asg])

\* Lines 654-697: every tier named "f0" with 3 points assigns the row's
\* three cells; one with another count does nothing.  The scan stops at a
\* 3-point tier without a point labelled "H" (st.failed).
RECURSIVE tone_scan(_, _, _, _)
tone_scan(tiers, snd, k, st) ==
  IF k > Len(tiers) \/ st.failed THEN st
  ELSE IF tiers[k].name # "f0" THEN tone_scan(tiers, snd, k + 1, st)
  ELSE IF Len(tiers[k].items) = 3 THEN
    LET items == tiers[k].items
        f0s   == [p \in 1..3 |-> LibPitchAt(snd, items[p].t1)]
        targ_vs_low == Excursion(f0s[2], f0s[3])
        peak  == PeakIndex(items)
    IN  IF peak = 0
          THEN [found |-> TRUE, failed |-> TRUE,
                pitched |-> st.pitched + 1, asg |-> st.asg]
          ELSE tone_scan(tiers, snd, k + 1,
                 [found |-> TRUE, failed |-> FALSE,
                  pitched |-> st.pitched + 1,
                  asg |-> [c \in HeightCols |->
                             CASE c = "exc_target_low_end" -> targ_vs_low
                               [] c = "exc_peak_low_end" ->
                                    Excursion(f0s[peak], f0s[3])
                               [] OTHER -> Val("Pitch")]])
  ELSE
    tone_scan(tiers, snd, k + 1,
      [found |-> TRUE, failed |-> st.failed, pitched |-> st.pitched,
       asg |-> st.asg])

ToneScanStart ==
  [found |-> FALSE, failed |-> FALSE, pitched |-> 0, asg |-> NoCells]

\* Lines 112-117 and the entry test of get_relative_heights (633, 709).
init_relative_heights ==
  /\ pc = OptHeights /\ i = 0
  /\ UNCHANGED << inputs, warns, calls, output >>
  /\ Assign(HeightCols)
  /\ IF {"filepath", "sound_obj", "exc_target_low_end", "exc_peak_low_end"}
          \subseteq cols'
       THEN EnterLoop(Len(data))
       ELSE Raise("TypeError")

\* One iteration of get_relative_heights's loop (lines 642-707).
get_relative_heights ==
  /\ pc = OptHeights /\ i \in 1..Len(data)
  /\ UNCHANGED << inputs, cols, output >>
  /\ LET st == tone_scan(files[i].tiers, files[i].snd, 1, ToneScanStart)
     IN  /\ data' = [data EXCEPT ![i] = SetCells(@, st.asg)]
         /\ calls' = Append(calls, Call("TextGrid", i, Null))
              \o Repeat(Call("to_pitch", i, Null), st.pitched)
         /\ IF st.failed THEN
              Raise("ValueError") /\ UNCHANGED warns
            ELSE
              /\ warns' = warns
                   \o (IF st.found THEN << >>
                       ELSE << Warning(OptHeights, "tier missing", i) >>)
              /\ Advance(Len(data))

\* ------------------------------------------------------------------- h1-h2
\* What the try block of lines 746-759 can do: the library raises for a
\* segment or pitch range it cannot analyse.
HarmonicsOutcomes == {"succeeds", "raises"}

\* Lines 119-122: get_h1_h2 has no entry test.
init_h1_h2 ==
  /\ pc = OptH1H2 /\ i = 0
  /\ UNCHANGED << inputs, warns, calls, output >>
  /\ Assign({"h1_h2"})
  /\ EnterLoop(Len(data))

\* get_h1_h2 without the except clause: a failure in the try block ends
\* the run.
get_h1_h2_uncaught ==
  /\ pc = OptH1H2 /\ i \in 1..Len(data)
  /\ UNCHANGED << inputs, cols, warns, output >>
  /\ LET row == data[i]
         reuse == "pitch_obj" \in cols /\ ~IsNull(row["pitch_obj"])
         pitch == IF reuse THEN << >> ELSE << Call("to_pitch", i, Null) >>
     IN  IF "v1_start" \notin cols THEN
           /\ Raise("KeyError")
           /\ calls' = calls \o pitch
           /\ UNCHANGED data
         ELSE IF ~IsNull(row["v1_start"]) THEN
           /\ calls' = calls \o pitch
                \o << Call("Get quantile", i, Val("range")) >>
           /\ \E outcome \in HarmonicsOutcomes :
                IF outcome = "succeeds"
                  THEN /\ data' = [data EXCEPT ![i]["h1_h2"] =
                            Val(LibMeasure("h1-h2",
                              Val(LibExtractPart(files[i].snd,
                                    Get(row["v1_start"]),
                                    Get(row["v1_end"])))))]
                       /\ Advance(Len(data))
                  ELSE UNCHANGED data /\ Raise("PraatError")
         ELSE
           /\ calls' = calls \o pitch
           /\ data' = [data EXCEPT ![i]["h1_h2"] = Null]
           /\ Advance(Len(data))

\* One iteration of get_h1_h2's loop (lines 720-768).
get_h1_h2 ==
  /\ pc = OptH1H2 /\ i \in 1..Len(data)
  /\ UNCHANGED << inputs, cols, warns, output >>
  /\ LET row == data[i]
         reuse == "pitch_obj" \in cols /\ ~IsNull(row["pitch_obj"])
         pitch == IF reuse THEN << >> ELSE << Call("to_pitch", i, Null) >>
     IN  IF "v1_start" \notin cols THEN
           /\ Raise("KeyError")
           /\ calls' = calls \o pitch
           /\ UNCHANGED data
         ELSE IF ~IsNull(row["v1_start"]) THEN
           /\ calls' = calls \o pitch
                \o << Call("Get quantile", i, Val("range")) >>
           /\ \E outcome \in HarmonicsOutcomes :
                IF outcome = "succeeds"
                  THEN data' = [data EXCEPT ![i]["h1_h2"] =
                         Val(LibMeasure("h1-h2",
                           Val(LibExtractPart(files[i].snd,
                                 Get(row["v1_start"]), Get(row["v1_end"])))))]
                  ELSE UNCHANGED data
           /\ Advance(Len(data))
         ELSE
           /\ calls' = calls \o pitch
           /\ data' = [data EXCEPT ![i]["h1_h2"] = Null]
           /\ Advance(Len(data))

\* ------------------------------------------------------------------ output
\* The drop list without the segment and pitch objects.
drop_cols_keeping_objects ==
  {"filepath", "wavpath", "sound_obj", "textgrid", "formant_obj",
   "v1_start", "v1_end", "sex"}

\* Lines 124-135.
drop_cols ==
  {"filepath", "wavpath", "sound_obj", "textgrid", "pitch_obj",
   "formant_obj", "v1_obj", "v1_start", "v1_end", "sex"}

Key(r) == << files[r].speaker, files[r].utterance >>

\* astype({"utterance": "int32"}) of a file name (lines 149-152): the
\* integer its digits spell, leading zeros dropped; int() raises ValueError
\* for a name that is no integer (Null).
AsInt32(name) ==
  CASE name \in {"1", "01"} -> Val(1)
    [] name \in {"2", "02"} -> Val(2)
    [] name = "3" -> Val(3)
    [] name = "4" -> Val(4)
    [] name = "5" -> Val(5)
    [] name = "6" -> Val(6)
    [] OTHER -> Null

\* The merge keeping every row of self.data.
RightJoin(keys, table) == table

\* input_df.merge(self.data, how="inner", on=["speaker", "utterance"]):
\* for every row of the input table in order, the rows of self.data with
\* its key.
RECURSIVE InnerJoin(_, _)
InnerJoin(keys, table) ==
  IF keys = << >> THEN << >>
  ELSE SelectSeq(table, LAMBDA row : row.key = Head(keys))
         \o InnerJoin(Tail(keys), table)

\* Lines 124-163: drop the working columns; when a file is at the input
\* path, cast the utterances to integers and merge with its table; write
\* to the output path.
write_output ==
  /\ pc = "write"
  /\ UNCHANGED << inputs, warns, calls >>
  /\ cols' = cols \ drop_cols
  /\ data' = [r \in DOMAIN data |->
                SetCells(data[r], [c \in drop_cols \cap StageCols |-> Null])]
  /\ LET table == [r \in DOMAIN data |-> [key |-> Key(r), cells |-> data'[r]]]
         ints == [r \in DOMAIN data |-> AsInt32(files[r].utterance)]
         cast == [r \in DOMAIN data |->
                    [key |-> << files[r].speaker, Get(ints[r]) >>,
                     cells |-> data'[r]]]
     IN  IF IsNull(infile) THEN
           /\ output' = Val([cols |-> cols', rows |-> table])
           /\ pc' = "done" /\ i' = 0 /\ err' = err
         ELSE IF \E r \in DOMAIN data : IsNull(ints[r]) THEN
           Raise("ValueError") /\ output' = output
         ELSE
           /\ output' = Val([cols |-> cols',
                             rows |-> InnerJoin(Get(infile), cast)])
           /\ pc' = "done" /\ i' = 0 /\ err' = err

\* ----------------------------------------------------------- specification
Next ==
  \/ Start
  \/ init_vowel_duration
  \/ get_vowel_duration
  \/ init_formant_averages
  \/ get_formants
  \/ init_formant_dispersions
  \/ get_formant_dispersions
  \/ init_rms
  \/ get_rms
  \/ init_spectral_tilt
  \/ get_spectral_tilt
  \/ init_center_of_gravity
  \/ get_center_of_gravity
  \/ init_word_durations
  \/ get_word_durations
  \/ init_relative_heights
  \/ get_relative_heights
  \/ init_h1_h2
  \/ get_h1_h2
  \/ write_output


\* What config["directory"] can be (JSON): an existing path, a path that
\* does not exist, "", null, a number, true.
Directories == {"valid", "missing", "empty", "null", "number", "true"}

FullFile == << VowelA, WordA, ToneA >>

\* At most two tiers out of a pool.
UpToTwo(pool) ==
  {<< >>} \cup { << a >> : a \in pool } \cup { << a, b >> : a, b \in pool }

VowelFiles ==
  { v \o << WordA, ToneA >> : v \in UpToTwo({VowelA, VowelB, VowelTwo}) }
WordFiles ==
  { << VowelA >> \o w \o << ToneA >> :
      w \in UpToTwo({WordA, WordB, WordFour}) }
ToneFiles ==
  { << VowelA, WordA >> \o t :
      t \in UpToTwo({ToneA, ToneB, ToneNoPeak, ToneTwo}) }

Pool(speakers, tiers, sexes, sounds) ==
  { Utterance(s, t, x, n) :
      s \in speakers, t \in tiers, x \in sexes, n \in sounds }

\* Every configuration, over small tables.
InitConfig ==
  InitWith(SUBSET Options, Directories, {FALSE}, {Null},
           Tables(Pool({"A"}, {FullFile, << PhoneTier >>}, {NoSex}, {SoundA}),
                  MaxRows))

SpecConfig == InitConfig /\ [][Next]_vars

\* Every stage, over small tables of one speaker.
InitAllStages ==
  InitWith({Options}, {"valid"}, {FALSE}, {Null},
           Tables(Pool({"A"}, {FullFile, << PhoneTier >>}, {NoSex},
                       {SoundA}), MaxRows))

\* The annotation files of the "f0" tier, with a sound whose pitch is
\* partly undefined and one whose pitch differs at the first point only.
TonePool ==
  Pool({"A"}, ToneFiles, {NoSex}, {SoundA})
    \cup Pool({"A"}, { << VowelA, WordA, t >> :
                         t \in {ToneA, ToneB, ToneNoPeak, ToneTwo} },
              {NoSex}, {SoundUnvoiced})
    \cup Pool({"A"}, { << VowelA, WordA, t >> :
                         t \in {ToneA, ToneB, ToneTwoPeaks} },
              {NoSex}, {SoundA, SoundLowOnset})

\* The stages that read the TextGrid, over tables of files that differ in
\* one tier name; every stage, over small tables.
Init ==
  \/ \E pool \in { Pool({"A"}, VowelFiles, {NoSex}, {SoundA}),
                   Pool({"A"}, WordFiles, {NoSex}, {SoundA}),
                   TonePool } :
       InitWith({{OptVowel, OptWord, OptHeights}}, {"valid"}, {FALSE}, {Null},
                Tables(pool, MaxRows))
  \/ InitAllStages

Spec == Init /\ [][Next]_vars


\* The formant stage over tables with and without a sex column; "x" is a
\* value other than "m" and "f", NoSex a row without value.
InitSex ==
  \/ InitWith({{OptVowel, OptFormants}}, {"valid"}, BOOLEAN, {Null},
              Tables(Pool({"A"}, {FullFile, << PhoneTier >>},
                          {"m", "f", "x", NoSex}, {SoundA, SoundNoF3}),
                     MaxRows))
  \/ InitAllStages

SpecSex == InitSex /\ [][Next]_vars

\* The formant stages over tables of two speakers, with rows whose vowel is
\* missing and sounds whose formants are partly undefined.
InitSpeakers ==
  \/ InitWith({{OptVowel, OptFormants, OptDispersion}}, {"valid"}, {FALSE},
              {Null},
              Tables(Pool({"A", "B"}, {FullFile, << PhoneTier >>}, {NoSex},
                          {SoundA, SoundB, SoundNoF3, SoundOnlyF1}),
                     MaxSpeakerRows))
  \/ InitWith({Options}, {"valid"}, {FALSE}, {Null},
              Tables(Pool({"A", "B"}, {FullFile, << PhoneTier >>}, {NoSex},
                          {SoundA, SoundB}), MaxSpeakerRows))

SpecSpeakers == InitSpeakers /\ [][Next]_vars

\* The write, over tables whose file names are integers with and without
\* leading zeros or no integers, with and without a table at the input
\* path, the output path being the input path or another one.
MergeRows ==
  { [speaker |-> sp, utterance |-> nm, tiers |-> FullFile, sex |-> NoSex,
     snd |-> SoundA] : sp \in {"A", "B"}, nm \in {"1", "01", "2", "x"} }

MergeTables ==
  { t \in UNION { [1..m -> MergeRows] : m \in 1..MaxRows } :
      /\ Grouped(t)
      /\ \A a, b \in DOMAIN t :
           (t[a].speaker = t[b].speaker /\ t[a].utterance = t[b].utterance)
             => a = b }

InputKeys == { << "A", 1 >>, << "A", 2 >>, << "B", 1 >> }

InputTables ==
  {Null} \cup { Val(k) : k \in UNION { [1..m -> InputKeys] : m \in 0..MaxRows } }

InitMerge ==
  \/ /\ config = {OptVowel}
     /\ directory = "valid"
     /\ sexcol = FALSE
     /\ infile \in InputTables
     /\ outfile \in {OutputPath(TRUE, infile), OutputPath(FALSE, Null),
                     OutputPath(FALSE, Val(<< << "A", 1 >> >>))}
     /\ files \in MergeTables
     /\ Unstarted
  \/ InitAllStages

SpecMerge == InitMerge /\ [][Next]_vars

\* ================================================================== claims
\* Where the run is: the block and iteration it is at, or was at when an
\* exception ended it.
At == IF pc = "aborted" THEN err.stage ELSE pc
AtRow == IF pc = "aborted" THEN err.row ELSE i

Pos(p) ==
  IF p \in Options THEN StageIndex(p)
  ELSE IF p \in {"write", "done"} THEN Len(StageOrder) + 1
  ELSE 0

\* The stage is enabled and its loop has finished iteration r.
Passed(stage, r) ==
  /\ stage \in config
  /\ \/ Pos(At) > Pos(stage)
     \/ At = stage /\ AtRow > r

\* The stage is enabled and has finished its whole loop.
Finished(stage) == stage \in config /\ Pos(At) > Pos(stage)

WarnedAbout(stage, r) ==
  \E k \in 1..Len(warns) :
    /\ warns[k].stage = stage
    /\ warns[k].speaker = files[r].speaker
    /\ warns[k].utterance = files[r].utterance

\* ---------------------------------------------------------------------- C1
\* The configurations the claim names as errors.
C1_Named(c) ==
  \/ OptDispersion \in c /\ OptFormants \notin c
  \/ c \cap {OptRms, OptTilt, OptCog, OptWord} # {} /\ OptVowel \notin c

\* The same without word duration.
C1_Dependent(c) ==
  \/ OptDispersion \in c /\ OptFormants \notin c
  \/ c \cap {OptRms, OptTilt, OptCog} # {} /\ OptVowel \notin c

\* The first enabled block whose dependent-option test fails.
C1_FirstFailing(c) ==
  LET failing == { k \in 1..Len(StageOrder) :
                     /\ StageOrder[k] \in c
                     /\ \/ StageOrder[k] = OptDispersion /\ OptFormants \notin c
                        \/ StageOrder[k] \in {OptRms, OptTilt, OptCog}
                             /\ OptVowel \notin c }
  IN  StageOrder[CHOOSE k \in failing : \A l \in failing : k <= l]

\* C1 as the claim states it: a configuration that enables formant
\* dispersion without formant averages, or any of RMS, spectral tilt,
\* center of gravity or word duration without vowel duration, never
\* completes and writes an output table.
C1_AsClaimed == C1_Named(config) => (pc # "done" /\ output = Null)

\* C1 (amended): a configuration that enables formant dispersion without
\* formant averages, or any of RMS, spectral tilt or center of gravity
\* without vowel duration, never reaches the write and never ends without
\* an exception; the exception is the dependent-option error of the first
\* such block, raised at the block's entry, unless the directory is
\* rejected first or formant averages are enabled without vowel duration
\* (then get_formants fails first, with a KeyError).
C1_DependentOptionIsFatal ==
  C1_Dependent(config) =>
    /\ pc \notin {"write", "done", "noop"}
    /\ output = Null
    /\ (pc # "aborted" => ENABLED Next)
    /\ pc = "aborted" =>
         \/ err.stage = "start" /\ directory # "valid"
         \/ /\ err.kind = "KeyError" /\ err.stage = OptFormants
            /\ OptVowel \notin config
         \/ /\ err.kind = "Exception" /\ err.row = 0
            /\ err.stage = C1_FirstFailing(config)

\* A dependent-option error has ended a run.
C1_Witness ==
  /\ C1_Dependent(config)
  /\ pc = "aborted" /\ err.kind = "Exception" /\ err.stage = OptRms

\* ---------------------------------------------------------------------- C2
\* The columns a block assigns.
AssignedBy(stage) ==
  CASE stage = OptVowel -> VowelCols
    [] stage = OptFormants -> FormantCols
    [] stage = OptDispersion -> DispersionCols
    [] stage = OptRms -> {"v1_rms"}
    [] stage = OptTilt -> {"v1_obj", "v1_tilt"}
    [] stage = OptCog -> {"v1_cog"}
    [] stage = OptWord -> WordCols
    [] stage = OptHeights -> HeightCols
    [] stage = OptH1H2 -> {"h1_h2"}
    [] OTHER -> {}

DependentOptionError == pc = "aborted" /\ err.kind = "Exception"

\* C2 as the claim states it: when a dependent-option error is raised, no
\* stage has visited a row, no annotation or audio file has been read and
\* no measurement column has been assigned.
C2_AsClaimed ==
  DependentOptionError => (calls = << >> /\ cols \cap StageCols = {})

\* C2 (amended): when a dependent-option error is raised, the block that
\* raises it has not started: it has assigned none of its columns, visited
\* no row and emitted no warning.  The audio file of every row has been
\* read by then, and every enabled block before it has run its whole loop.
C2_RaisedAtBlockEntry ==
  DependentOptionError =>
    /\ err.row = 0
    /\ PrerequisiteMissing(err.stage)
    /\ AssignedBy(err.stage) \cap cols
         \subseteq UNION { AssignedBy(StageOrder[k]) :
                             k \in 1..(StageIndex(err.stage) - 1) }
    /\ \A r \in Rows : \A c \in AssignedBy(err.stage) : IsNull(data[r][c])
    /\ \A k \in 1..Len(warns) : warns[k].stage # err.stage
    /\ \A r \in Rows : \E k \in 1..Len(calls) :
         calls[k].op = "Sound" /\ calls[k].row = r
    /\ \A k \in 1..(StageIndex(err.stage) - 1) :
         StageOrder[k] \in config => AssignedBy(StageOrder[k]) \subseteq cols

\* A dependent-option error raised after an earlier stage has run.
C2_Witness ==
  /\ DependentOptionError /\ err.stage = OptDispersion
  /\ OptVowel \in config /\ "v1_duration" \in cols
  /\ \E r \in Rows : ~IsNull(data[r]["v1_duration"])

\* ---------------------------------------------------------------------- C3
TiersNamed(r, name) ==
  { k \in 1..Len(files[r].tiers) : files[r].tiers[k].name = name }

HasTier(r, name) == TiersNamed(r, name) # {}

LastOf(ks) == CHOOSE k \in ks : \A l \in ks : l <= k

LastNamed(r, name) == files[r].tiers[LastOf(TiersNamed(r, name))]

\* The stage has read the row's TextGrid.
ReadTextGrid(stage, r) ==
  \E k \in 1..Len(calls) :
    calls[k].stage = stage /\ calls[k].op = "TextGrid" /\ calls[k].row = r

\* The row has no "Vowel" tier, or its (last) "Vowel" tier has not exactly
\* 3 intervals.
NoMeasurableVowel(r) ==
  ~HasTier(r, "Vowel") \/ Len(LastNamed(r, "Vowel").items) # 3

\* C3: once the vowel-duration stage has been over a row whose "Vowel"
\* tier is missing or has not exactly 3 intervals, the row's v1_start,
\* v1_end and v1_duration are null and a warning of that stage names the
\* row's speaker and utterance; the stage is never ended by an exception,
\* and when its loop is over it has read the TextGrid of every row.
C3_MissingVowelIsNull ==
  /\ At # OptVowel \/ pc # "aborted"
  /\ \A r \in Rows :
       (Passed(OptVowel, r) /\ NoMeasurableVowel(r)) =>
          /\ IsNull(data[r]["v1_start"])
          /\ IsNull(data[r]["v1_end"])
          /\ IsNull(data[r]["v1_duration"])
          /\ WarnedAbout(OptVowel, r)
  /\ \A r \in Rows : Passed(OptVowel, r) => ReadTextGrid(OptVowel, r)
  /\ Finished(OptVowel) => \A r \in Rows : Passed(OptVowel, r)

\* A row with a "Vowel" tier of another count and a row without "Vowel"
\* tier have been passed, the second after the first.
C3_Witness ==
  /\ Len(files) = 2
  /\ HasTier(1, "Vowel") /\ NoMeasurableVowel(1)
  /\ Passed(OptVowel, 1) /\ Passed(OptVowel, 2)
  /\ ~IsNull(data[2]["v1_duration"])

\* ---------------------------------------------------------------------- C4
Nulls(n) == [k \in 1..n |-> Null]

VowelOutputs(tier) ==
  IF Len(tier.items) # 3 THEN Nulls(3)
  ELSE << Val(tier.items[2].t1), Val(tier.items[2].t2),
          Val((tier.items[2].t2 - tier.items[2].t1) * 1000) >>

WordOutputs(tier) ==
  IF Len(tier.items) # 5 THEN Nulls(3)
  ELSE LET tool == (tier.items[2].t2 - tier.items[2].t1) * 1000
           target == (tier.items[4].t2 - tier.items[4].t1) * 1000
       IN  << Val(tool), Val(target), Val(Frac(tool, target)) >>

ToneOutputs(tier, snd) ==
  IF Len(tier.items) # 3 \/ PeakIndex(tier.items) = 0 THEN Nulls(2)
  ELSE << Excursion(LibPitchAt(snd, tier.items[2].t1),
                    LibPitchAt(snd, tier.items[3].t1)),
          Excursion(LibPitchAt(snd, tier.items[PeakIndex(tier.items)].t1),
                    LibPitchAt(snd, tier.items[3].t1)) >>

VowelNames == << "v1_start", "v1_end", "v1_duration" >>
WordNames == << "tool_duration", "target_duration", "ratio_word_duration" >>
ToneNames == << "exc_target_low_end", "exc_peak_low_end" >>

\* The row's cells of these columns.
Cells(r, names) == [k \in 1..Len(names) |-> data[r][names[k]]]

\* The outputs in the columns the table still has (the write drops the
\* working columns).
Kept(names, outputs) ==
  [k \in 1..Len(names) |-> IF names[k] \in cols THEN outputs[k] ELSE Null]

RowVowel(r) == Cells(r, VowelNames)
RowWord(r) == Cells(r, WordNames)
RowTone(r) == Cells(r, ToneNames)

\* The tiers of that name with n items.
TiersWith(r, name, n) ==
  { k \in TiersNamed(r, name) : Len(files[r].tiers[k].items) = n }

\* C4 as the claim states it: after each of the three stages, a row with
\* several tiers of the stage's name holds the outputs of the last of
\* them, null when that last one has the wrong count.
C4_AsClaimed ==
  \A r \in Rows :
    /\ (Passed(OptVowel, r) /\ HasTier(r, "Vowel")) =>
         RowVowel(r) = Kept(VowelNames, VowelOutputs(LastNamed(r, "Vowel")))
    /\ (Passed(OptWord, r) /\ HasTier(r, "Word")) =>
         RowWord(r) = Kept(WordNames, WordOutputs(LastNamed(r, "Word")))
    /\ (Passed(OptHeights, r) /\ HasTier(r, "f0")) =>
         RowTone(r) =
           Kept(ToneNames, ToneOutputs(LastNamed(r, "f0"), files[r].snd))

\* C4 (amended): after the vowel-duration stage a row holds the outputs of
\* its last "Vowel" tier, null when that tier has not 3 intervals.  After
\* the word-duration stage it holds the outputs of its last "Word" tier
\* with 5 intervals, and after the relative-heights stage those of its last
\* "f0" tier with 3 points: a later tier of that name with another count
\* changes nothing, and the outputs are null only when no tier of that name
\* has the count.
C4_LastMatchingTierWins ==
  \A r \in Rows :
    /\ (Passed(OptVowel, r) /\ HasTier(r, "Vowel")) =>
         RowVowel(r) = Kept(VowelNames, VowelOutputs(LastNamed(r, "Vowel")))
    /\ Passed(OptWord, r) =>
         RowWord(r) =
           IF TiersWith(r, "Word", 5) = {} THEN Nulls(3)
           ELSE Kept(WordNames,
                  WordOutputs(files[r].tiers[LastOf(TiersWith(r, "Word", 5))]))
    /\ Passed(OptHeights, r) =>
         RowTone(r) =
           IF TiersWith(r, "f0", 3) = {} THEN Nulls(2)
           ELSE Kept(ToneNames,
                  ToneOutputs(files[r].tiers[LastOf(TiersWith(r, "f0", 3))],
                              files[r].snd))

\* The three stages have been over a row with two "Word" tiers, the last
\* of them with another count, and the row holds the first one's outputs.
C4_Witness ==
  \E r \in Rows :
    /\ Passed(OptVowel, r) /\ Passed(OptWord, r) /\ Passed(OptHeights, r)
    /\ Cardinality(TiersNamed(r, "Word")) = 2
    /\ Len(LastNamed(r, "Word").items) # 5
    /\ ~IsNull(data[r]["tool_duration"])

\* ---------------------------------------------------------------------- C5
\* The input columns a stage's loop reads from a row.
ReadBy(stage) ==
  CASE stage = OptVowel -> {"filepath", "speaker", "utterance"}
    [] stage = OptFormants ->
         {"sound_obj", "v1_start", "v1_end", "speaker", "utterance"}
    [] stage = OptDispersion -> {"speaker", "f1", "f2", "f3"}
    [] stage = OptRms -> {"sound_obj", "v1_start", "v1_end"}
    [] stage = OptTilt -> {"sound_obj", "v1_start", "v1_end"}
    [] stage = OptCog -> {"sound_obj", "v1_start", "v1_end"}
    [] stage = OptWord -> {"filepath"}
    [] stage = OptHeights -> {"filepath", "sound_obj"}
    [] OTHER -> {"sound_obj", "v1_start", "v1_end"}

\* C5 as the claim states it: a stage run on a table that lacks one of the
\* columns it reads never starts its loop over the rows, and when it fails
\* it fails at its entry (row 0), never at a row.
C5_AsClaimed ==
  \A stage \in Options :
    ~(ReadBy(stage) \subseteq cols) =>
       /\ ~(pc = stage /\ i >= 1)
       /\ (pc = "aborted" /\ err.stage = stage) => err.row = 0

\* ---------------------------------------------------------------------- C6
\* The stage has called the root-mean-square measurement on the row with an
\* undefined range.
MeasuredNullRange(r) ==
  \E k \in 1..Len(calls) :
    /\ calls[k].op = "get_root_mean_square"
    /\ calls[k].row = r
    /\ calls[k].arg = Val("null range")

\* C6 as the claim states it: the RMS stage never calls the measurement on
\* a null range, and once it has been over a row whose V1 span is null the
\* row's v1_rms is null and a warning of the stage names the row.
C6_AsClaimed ==
  \A r \in Rows :
    /\ ~MeasuredNullRange(r)
    /\ (Passed(OptRms, r) /\ IsNull(data[r]["v1_start"])) =>
         (IsNull(data[r]["v1_rms"]) /\ WarnedAbout(OptRms, r))

\* ---------------------------------------------------------------------- C7
\* The row's only "f0" tier has 3 points, none of them labelled "H".
NoPeakRow(r) ==
  /\ Cardinality(TiersNamed(r, "f0")) = 1
  /\ Len(LastNamed(r, "f0").items) = 3
  /\ PeakIndex(LastNamed(r, "f0").items) = 0

\* C7 as the claim states it: the relative-heights stage is never aborted
\* at a row whose "f0" tier has 3 points and no "H"; once it has been over
\* such a row, the row's two excursions are null.
C7_AsClaimed ==
  \A r \in Rows :
    NoPeakRow(r) =>
      /\ ~(pc = "aborted" /\ err.stage = OptHeights /\ err.row = r)
      /\ Passed(OptHeights, r) => RowTone(r) = Nulls(2)

\* ---------------------------------------------------------------------- C8
\* The row's V1 span is present.
HasSpan(r) ==
  /\ {"v1_start", "v1_end"} \subseteq cols
  /\ r \in DOMAIN data
  /\ ~IsNull(data[r]["v1_start"]) /\ ~IsNull(data[r]["v1_end"])

\* The ceiling the claim gives the row: 4500 for sex "m", 5500 for "f" and
\* for a row without sex column, without value or with another value.
ClaimedCeiling(r) == IF sexcol /\ files[r].sex = "m" THEN 4500 ELSE 5500

SpeakerIndex(speaker) ==
  CHOOSE k \in 1..Len(UniqueSpeakers(files, 1)) :
    UniqueSpeakers(files, 1)[k] = speaker

Speakers == { files[r].speaker : r \in Rows }

\* The dispersion stage is at the speaker's iteration (or failed in it).
DispersionAt(speaker) ==
  At = OptDispersion /\ AtRow = SpeakerIndex(speaker)

\* The dispersion stage has finished the speaker's iteration.
DispersionPassed(speaker) ==
  /\ OptDispersion \in config
  /\ \/ Pos(At) > Pos(OptDispersion)
     \/ At = OptDispersion /\ AtRow > SpeakerIndex(speaker)

\* The speaker's rows with a complete non-null (f1, f2, f3) triple.
CompleteRows(speaker) ==
  { r \in SpeakerRows(speaker) :
      /\ r \in DOMAIN data
      /\ ~IsNull(data[r]["f1"]) /\ ~IsNull(data[r]["f2"])
      /\ ~IsNull(data[r]["f3"]) }

\* The sum of (hi - lo), each difference within one row.
RECURSIVE SumWithinRows(_, _, _)
SumWithinRows(rows, hi, lo) ==
  IF rows = {} THEN 0
  ELSE LET r == CHOOSE x \in rows : TRUE
       IN  (Get(data[r][hi]) - Get(data[r][lo]))
             + SumWithinRows(rows \ {r}, hi, lo)

ClaimedDispersion(speaker, hi, lo) ==
  Val(Frac(SumWithinRows(CompleteRows(speaker), hi, lo),
           Cardinality(CompleteRows(speaker)) - 1))

\* C9 as the claim states it: for every speaker with n # 1 rows of a
\* complete (f1, f2, f3) triple, the dispersion stage does not fail in the
\* speaker's iteration, and after it every row of the speaker holds the
\* sum of (f2 - f1) over those rows divided by (n - 1) as f1_f2_dispersion
\* and the same with (f3 - f2) as f2_f3_dispersion.
C9_AsClaimed ==
  \A speaker \in Speakers :
    Cardinality(CompleteRows(speaker)) # 1 =>
      /\ ~(pc = "aborted" /\ DispersionAt(speaker))
      /\ DispersionPassed(speaker) =>
           \A r \in SpeakerRows(speaker) :
             /\ data[r]["f1_f2_dispersion"]
                  = ClaimedDispersion(speaker, "f2", "f1")
             /\ data[r]["f2_f3_dispersion"]
                  = ClaimedDispersion(speaker, "f3", "f2")

\* ---------------------------------------------------------------------- C10
\* C10: once the dispersion stage has finished a speaker's iteration, in
\* that state and in every later one (the later stages, the write) any two
\* rows of the speaker hold the same f1_f2_dispersion and the same
\* f2_f3_dispersion, and the later stages leave the values as they were
\* set.
C10_SameWithinSpeaker ==
  \A speaker \in Speakers :
    DispersionPassed(speaker) =>
      /\ \A r1, r2 \in SpeakerRows(speaker) :
           \A c \in DispersionCols : data[r1][c] = data[r2][c]
      /\ \A r \in SpeakerRows(speaker) :
           \A c \in DispersionCols : ~IsNull(data[r][c])

\* The run is over, every later stage has run, and a speaker with two rows
\* holds a dispersion, another speaker another one.
C10_Witness ==
  /\ pc = "done" /\ config = Options
  /\ \E r1, r2, r3 \in Rows :
       /\ r1 # r2 /\ files[r1].speaker = files[r2].speaker
       /\ files[r3].speaker # files[r1].speaker
       /\ ~IsNull(data[r1]["f1_f2_dispersion"])
       /\ data[r3]["f1_f2_dispersion"] # data[r1]["f1_f2_dispersion"]

\* ---------------------------------------------------------------------- C11
\* The number of the speaker's rows with a value in the column.
CountOf(speaker, col) ==
  Cardinality({ r \in SpeakerRows(speaker) :
                  r \in DOMAIN data /\ ~IsNull(data[r][col]) })

\* The speaker's counts of f1, f2 and f3 values are not all the same.
UnequalCounts(speaker) ==
  ~(CountOf(speaker, "f1") = CountOf(speaker, "f2")
      /\ CountOf(speaker, "f2") = CountOf(speaker, "f3"))

\* One of the speaker's rows has no formant value at all.
RowWithoutFormants(speaker) ==
  \E r \in SpeakerRows(speaker) :
    /\ r \in DOMAIN data
    /\ IsNull(data[r]["f1"]) /\ IsNull(data[r]["f2"]) /\ IsNull(data[r]["f3"])

\* The dispersion stage has warned in the speaker's iteration.
DispersionWarned(speaker) ==
  \E k \in 1..Len(warns) :
    warns[k].stage = OptDispersion /\ warns[k].row = SpeakerIndex(speaker)

\* C11 as the claim states it: for a speaker whose counts of f1, f2 and f3
\* values are unequal, or one of whose rows has no formant value, the
\* dispersion stage does not fail in the speaker's iteration, and once the
\* iteration is over it has warned in it.  (Speakers whose largest count is
\* 1 are left out: the divisor is 0 there whatever the rows are.)
C11_AsClaimed ==
  \A speaker \in Speakers :
    ( /\ UnequalCounts(speaker) \/ RowWithoutFormants(speaker)
      /\ Max3(CountOf(speaker, "f1"), CountOf(speaker, "f2"),
              CountOf(speaker, "f3")) # 1 ) =>
      /\ ~(pc = "aborted" /\ DispersionAt(speaker))
      /\ DispersionPassed(speaker) => DispersionWarned(speaker)

\* ---------------------------------------------------------------------- C12
\* The rows of the written table.
Written == Get(output).rows

\* The key of a computed row as the merge sees it: the speaker and the
\* utterance as an integer cell.
CastKey(r) == << files[r].speaker, AsInt32(files[r].utterance) >>

\* The key of a written row, the utterance as an integer cell.
WrittenKey(k) ==
  << Written[k].key[1],
     IF IsNull(infile) THEN AsInt32(Written[k].key[2])
     ELSE Val(Written[k].key[2]) >>

\* The keys of a table of keys, the utterance as an integer cell.
KeysOf(table) ==
  { << table[k][1], Val(table[k][2]) >> : k \in DOMAIN table }

\* How often the key occurs in a table of keys.
TimesIn(table, key) ==
  Cardinality({ k \in DOMAIN table : << table[k][1], Val(table[k][2]) >> = key })

\* C12 as the claim states it: when a table exists at the output path
\* before the run, the table the run writes holds exactly the rows whose
\* key occurs in that table and in the computed one.
C12_AsClaimed ==
  (pc = "done" /\ ~IsNull(outfile.table)) =>
     /\ \A k \in DOMAIN Written : WrittenKey(k) \in KeysOf(Get(outfile.table))
     /\ \A r \in Rows :
          CastKey(r) \in KeysOf(Get(outfile.table)) =>
            \E k \in DOMAIN Written : WrittenKey(k) = CastKey(r)

\* C12 (amended): the join is with the table at the input path, whatever is
\* at the output path.  When a file is at the input path and every file
\* name is an integer, the written table holds, for every key, as many rows
\* as the input table has rows of the key times the computed table has rows
\* of the key (file names compared as integers), each with the cells of a
\* computed row of the key: rows whose key is on one side only are dropped.
\* When a file name is no integer the cast raises ValueError and nothing is
\* written.  When no file is at the input path the computed table is
\* written whole, a table at another output path being overwritten.
C12_JoinsInputFile ==
  /\ (pc = "done" /\ IsNull(infile)) =>
        /\ Len(Written) = Len(files)
        /\ \A r \in Rows :
             Written[r] = [key |-> Key(r), cells |-> data[r]]
  /\ (pc = "done" /\ ~IsNull(infile)) =>
        /\ \A r \in Rows : ~IsNull(AsInt32(files[r].utterance))
        /\ \A k \in DOMAIN Written :
             /\ WrittenKey(k) \in KeysOf(Get(infile))
             /\ \E r \in Rows :
                  CastKey(r) = WrittenKey(k) /\ Written[k].cells = data[r]
        /\ \A key \in KeysOf(Get(infile)) \cup { CastKey(r) : r \in Rows } :
             Cardinality({ k \in DOMAIN Written : WrittenKey(k) = key })
               = TimesIn(Get(infile), key)
                   * Cardinality({ r \in Rows : CastKey(r) = key })
  /\ (pc = "aborted" /\ err.stage = "write") =>
        /\ ~IsNull(infile)
        /\ \E r \in Rows : IsNull(AsInt32(files[r].utterance))
        /\ err.kind = "ValueError" /\ output = Null

\* A table was merged: a row of the file "01" was written for the input
\* key 1, a computed row and an input row were dropped, and another table
\* at the output path was overwritten.
C12_Witness ==
  /\ pc = "done" /\ ~IsNull(infile)
  /\ ~outfile.same /\ ~IsNull(outfile.table)
  /\ \E r \in Rows :
       /\ files[r].utterance = "01"
       /\ \E k \in DOMAIN Written : WrittenKey(k) = CastKey(r)
  /\ \E r \in Rows : CastKey(r) \notin KeysOf(Get(infile))
  /\ \E key \in KeysOf(Get(infile)) : \A r \in Rows : CastKey(r) # key

\* ---------------------------------------------------------------------- C13
\* The warnings of a stage about a row.
WarningsAbout(stage, r) ==
  { k \in 1..Len(warns) : warns[k].stage = stage /\ warns[k].row = r }

\* What the harmonic spectrum of the row's V1 span measures.
HarmonicsOf(r) ==
  Val(LibMeasure("h1-h2",
        Val(LibExtractPart(files[r].snd,
              LastNamed(r, "Vowel").items[2].t1,
              LastNamed(r, "Vowel").items[2].t2))))

\* C13: on a table with the V1 span columns (vowel duration enabled), once
\* the H1-H2 stage has been over a row without V1 span the row's h1_h2 is
\* null; once it has been over a row with a span, h1_h2 is the measurement
\* or, a failure having been caught, null; the stage emits no warning and
\* is never ended by an exception, so every row is gone over.
C13_FailureIsSkipped ==
  OptVowel \in config =>
    /\ ~(pc = "aborted" /\ err.stage = OptH1H2)
    /\ \A k \in 1..Len(warns) : warns[k].stage # OptH1H2
    /\ \A r \in Rows :
         Passed(OptH1H2, r) =>
           IF NoMeasurableVowel(r) THEN IsNull(data[r]["h1_h2"])
           ELSE data[r]["h1_h2"] \in {Null, HarmonicsOf(r)}
    /\ Finished(OptH1H2) => \A r \in Rows : Passed(OptH1H2, r)

\* The spectrum of the first row failed, the row was left without value
\* and the second row was measured.
C13_Witness ==
  /\ Len(files) = 2 /\ Finished(OptH1H2) /\ OptVowel \in config
  /\ ~NoMeasurableVowel(1) /\ IsNull(data[1]["h1_h2"])
  /\ ~IsNull(data[2]["h1_h2"])

\* ---------------------------------------------------------------------- C14
\* The directory values that are no non-empty string: "", None, 20, True.
NotNonEmptyString(d) == d \in {"empty", "null", "number", "true"}

\* The run was rejected at the directory tests, nothing collected.
RejectedWith(kind) ==
  /\ pc = "aborted" /\ err.stage = "start" /\ err.kind = kind
  /\ cols = {} /\ data = << >> /\ calls = << >>

\* C14 as the claim states it: once the constructor has looked at the
\* directory, a value that is no non-empty string has been rejected with a
\* TypeError and a string naming no path with a ValueError, nothing having
\* been collected (with at least one option enabled; with none the run
\* ends after the existence test).
C14_AsClaimed ==
  (pc # "start" /\ config # {}) =>
    /\ NotNonEmptyString(directory) => RejectedWith("TypeError")
    /\ directory = "missing" => RejectedWith("ValueError")

\* ---------------------------------------------------------------------- C15
\* The row has a "Word" tier and none of its "Word" tiers has 5 intervals.
NoMeasurableWord(r) == HasTier(r, "Word") /\ TiersWith(r, "Word", 5) = {}

NoMeasurableTone(r) == HasTier(r, "f0") /\ TiersWith(r, "f0", 3) = {}

\* C16: once the relative-heights stage has been over a row whose "f0"
\* tier has not 3 points, the row's exc_target_low_end and
\* exc_peak_low_end are null and the stage has no warning about the row;
\* once it has been over a row without "f0" tier, they are null and the
\* stage has exactly one warning about the row, the tier-missing one; the
\* stage is not ended at either kind of row.
C16_WrongPointCountIsSilent ==
  \A r \in Rows :
    /\ NoMeasurableTone(r) =>
         /\ ~(pc = "aborted" /\ err.stage = OptHeights /\ err.row = r)
         /\ Passed(OptHeights, r) =>
              (RowTone(r) = Nulls(2) /\ WarningsAbout(OptHeights, r) = {})
    /\ ~HasTier(r, "f0") =>
         /\ ~(pc = "aborted" /\ err.stage = OptHeights /\ err.row = r)
         /\ Passed(OptHeights, r) =>
              /\ RowTone(r) = Nulls(2)
              /\ Cardinality(WarningsAbout(OptHeights, r)) = 1
              /\ \A k \in WarningsAbout(OptHeights, r) :
                   /\ warns[k].kind = "tier missing"
                   /\ warns[k].speaker = files[r].speaker
                   /\ warns[k].utterance = files[r].utterance

\* The stage has been over a row whose "f0" tier has 2 points, then over a
\* row without "f0" tier, and is over.
C16_Witness ==
  /\ Len(files) = 2 /\ Finished(OptHeights)
  /\ NoMeasurableTone(1) /\ Len(LastNamed(1, "f0").items) = 2
  /\ ~HasTier(2, "f0")
  /\ WarningsAbout(OptHeights, 1) = {}
  /\ Cardinality(WarningsAbout(OptHeights, 2)) = 1

\* ---------------------------------------------------------------------- C17
\* The table has the v1_start column and the row's v1_start is null.
NullStart(r) ==
  "v1_start" \in cols /\ r \in DOMAIN data /\ IsNull(data[r]["v1_start"])

\* The formant track of the row has been computed.
TrackComputed(r) ==
  \E k \in 1..Len(calls) :
    calls[k].op = "to_formant_burg" /\ calls[k].row = r

\* C17: the formant stage does not fail at a row whose v1_start is null,
\* whatever the row's sex; once it has been over such a row, the row's f1,
\* f2, f3 and formant track are null, no formant track has been computed
\* for it, and the stage has warned once about the row, naming its speaker
\* and utterance.
C17_NullStartIsSkipped ==
  \A r \in Rows :
    NullStart(r) =>
      /\ ~(pc = "aborted" /\ err.stage = OptFormants /\ err.row = r)
      /\ Passed(OptFormants, r) =>
           /\ \A c \in {"f1", "f2", "f3", "formant_obj"} : IsNull(data[r][c])
           /\ ~TrackComputed(r)
           /\ Cardinality(WarningsAbout(OptFormants, r)) = 1
           /\ WarnedAbout(OptFormants, r)

\* The stage has skipped the first row, which has a sex that is neither
\* "m" nor "f", and measured the second.
C17_Witness ==
  /\ Len(files) = 2 /\ Finished(OptFormants)
  /\ NullStart(1) /\ sexcol /\ files[1].sex = "x"
  /\ WarnedAbout(OptFormants, 1)
  /\ ~IsNull(data[2]["f1"]) /\ TrackComputed(2)

\* ---------------------------------------------------------------------- C18
\* The last of the row's "Word" tiers with 5 intervals.
WordTier(r) == files[r].tiers[LastOf(TiersWith(r, "Word", 5))]

\* The duration of an interval in milliseconds.
Milliseconds(interval) == (interval.t2 - interval.t1) * 1000

\* C18: once the word-duration stage has been over a row with a "Word"
\* tier of 5 intervals, tool_duration is the duration of the tier's
\* interval 2 in milliseconds, target_duration that of interval 4, and
\* ratio_word_duration is the quotient of the two cells.
C18_WordDurations ==
  \A r \in Rows :
    (Passed(OptWord, r) /\ TiersWith(r, "Word", 5) # {}) =>
       /\ data[r]["tool_duration"] = Val(Milliseconds(WordTier(r).items[2]))
       /\ data[r]["target_duration"] = Val(Milliseconds(WordTier(r).items[4]))
       /\ data[r]["ratio_word_duration"]
            = Val(Frac(Get(data[r]["tool_duration"]),
                       Get(data[r]["target_duration"])))

\* The run is over for a row with one "Word" tier whose interval 3 is
\* shorter than its interval 4.
C18_Witness ==
  \E r \in Rows :
    /\ pc = "done" /\ OptWord \in config
    /\ Cardinality(TiersNamed(r, "Word")) = 1
    /\ TiersWith(r, "Word", 5) # {}
    /\ Milliseconds(WordTier(r).items[3]) < Milliseconds(WordTier(r).items[4])
    /\ Get(data[r]["ratio_word_duration"]) = Frac(1000, 2000)

\* ---------------------------------------------------------------------- C19
\* C19: once the vowel-duration stage has been over a row whose "Vowel"
\* tier has 3 intervals, v1_start and v1_end are the start and the end of
\* interval 2 and v1_duration is (end - start) * 1000 (in the columns the
\* table still has); wherever v1_start, v1_end and v1_duration are present
\* v1_duration is (v1_end - v1_start) * 1000, and a v1_duration that is
\* present is never negative.
C19_VowelDuration ==
  \A r \in DOMAIN data :
    /\ (Passed(OptVowel, r) /\ ~NoMeasurableVowel(r)) =>
         RowVowel(r) =
           Kept(VowelNames,
                << Val(LastNamed(r, "Vowel").items[2].t1),
                   Val(LastNamed(r, "Vowel").items[2].t2),
                   Val(Milliseconds(LastNamed(r, "Vowel").items[2])) >>)
    /\ (\A n \in 1..3 : ~IsNull(RowVowel(r)[n])) =>
         Get(data[r]["v1_duration"])
           = (Get(data[r]["v1_end"]) - Get(data[r]["v1_start"])) * 1000
    /\ ~IsNull(data[r]["v1_duration"]) => Get(data[r]["v1_duration"]) >= 0

\* The stage has measured a row with one "Vowel" tier of 3 intervals, the
\* columns still in the table.
C19_Witness ==
  \E r \in Rows :
    /\ Passed(OptVowel, r) /\ "v1_start" \in cols
    /\ Cardinality(TiersNamed(r, "Vowel")) = 1
    /\ RowVowel(r) = << Val(2), Val(3), Val(1000) >>

\* ---------------------------------------------------------------------- C20
\* The last of the row's "f0" tiers with 3 points.
ToneTier(r) == files[r].tiers[LastOf(TiersWith(r, "f0", 3))]

\* The points of the tier labelled "H".
PeaksOf(tier) == { p \in DOMAIN tier.items : tier.items[p].label = "H" }

\* The pitch of the row's sound at a point of the tier.
PitchAtPoint(r, tier, p) == LibPitchAt(files[r].snd, tier.items[p].t1)

\* C20: once the relative-heights stage has been over a row whose "f0"
\* tier has 3 points, one of them labelled "H", exc_peak_low_end is
\* 12 * log2(pitch at the "H" point / pitch at the third point), null when
\* one of the two pitches is undefined; for the points (target, "H", "L%")
\* at the pitches 150, 300, 140 it is 12 * log2(300 / 140).
C20_PeakExcursion ==
  \A r \in Rows :
    ( /\ Passed(OptHeights, r)
      /\ TiersWith(r, "f0", 3) # {}
      /\ Cardinality(PeaksOf(ToneTier(r))) = 1 ) =>
      LET tier == ToneTier(r)
          peak == CHOOSE p \in PeaksOf(tier) : TRUE
          high == PitchAtPoint(r, tier, peak)
          low  == PitchAtPoint(r, tier, 3)
      IN  /\ data[r]["exc_peak_low_end"] =
               IF IsNull(high) \/ IsNull(low) THEN Null
               ELSE Val(Semitones(Get(high), Get(low)))
          /\ ( /\ peak = 2
               /\ [p \in 1..3 |-> PitchAtPoint(r, tier, p)]
                    = << Val(150), Val(300), Val(140) >> ) =>
               data[r]["exc_peak_low_end"] = Val(Semitones(300, 140))

\* The stage has been over a row with the points (target, "H", "L%") at
\* 150, 300, 140 and over a row whose "H" is the first point.
C20_Witness ==
  /\ Finished(OptHeights)
  /\ \E r \in Rows :
       /\ TiersWith(r, "f0", 3) # {}
       /\ PeaksOf(ToneTier(r)) = {2}
       /\ [p \in 1..3 |-> PitchAtPoint(r, ToneTier(r), p)]
            = << Val(150), Val(300), Val(140) >>
       /\ data[r]["exc_peak_low_end"] = Val(Semitones(300, 140))
  /\ \E r \in Rows :
       /\ TiersWith(r, "f0", 3) # {}
       /\ PeaksOf(ToneTier(r)) = {1}
       /\ ~IsNull(data[r]["exc_peak_low_end"])

\* ---------------------------------------------------------------------- C21
\* The row's V1 span is absent: its v1_start is null, or (the column gone
\* with the write) the vowel stage found no "Vowel" tier of 3 intervals.
AbsentSpan(r) ==
  \/ NullStart(r)
  \/ "v1_start" \notin cols /\ pc = "done" /\ NoMeasurableVowel(r)

\* The stage has extracted an audio segment for the row.
SegmentExtracted(stage, r) ==
  \E k \in 1..Len(calls) :
    /\ calls[k].stage = stage
    /\ calls[k].op = "extract_part"
    /\ calls[k].row = r

\* The output column of a stage that measures the V1 segment.
SegmentOutput(stage) == IF stage = OptTilt THEN "v1_tilt" ELSE "v1_cog"

\* C21: neither the spectral-tilt stage nor the center-of-gravity stage
\* fails at a row whose V1 span is absent; once the stage has been over
\* such a row, the row's output (v1_tilt, v1_cog) is null, the stage has
\* extracted no segment for it and has warned once about it, naming the
\* row's speaker and utterance.
C21_AbsentSpanIsSkipped ==
  \A stage \in {OptTilt, OptCog} : \A r \in Rows :
    AbsentSpan(r) =>
      /\ ~(pc = "aborted" /\ err.stage = stage /\ err.row = r)
      /\ Passed(stage, r) =>
           /\ IsNull(data[r][SegmentOutput(stage)])
           /\ IsNull(data[r]["v1_obj"])
           /\ ~SegmentExtracted(stage, r)
           /\ Cardinality(WarningsAbout(stage, r)) = 1
           /\ WarnedAbout(stage, r)

\* Both stages have skipped the first row, which has no V1 span, and
\* measured the second.
C21_Witness ==
  /\ Len(files) = 2 /\ Finished(OptTilt) /\ Finished(OptCog)
  /\ NullStart(1)
  /\ WarnedAbout(OptTilt, 1) /\ WarnedAbout(OptCog, 1)
  /\ IsNull(data[1]["v1_tilt"]) /\ IsNull(data[1]["v1_cog"])
  /\ SegmentExtracted(OptTilt, 2)
  /\ ~IsNull(data[2]["v1_tilt"]) /\ ~IsNull(data[2]["v1_cog"])

\* ---------------------------------------------------------------------- C22
\* The columns that only serve the computation: the paths of the
\* annotation and audio files, the sound, and the annotation, pitch,
\* formant and V1 segment objects.
WorkingCols ==
  {"filepath", "wavpath", "sound_obj", "textgrid", "pitch_obj",
   "formant_obj", "v1_obj"}

\* C22: whatever stages are enabled, a table that has been written has
\* none of the working columns, no row of it holds a value of one, and it
\* has the columns speaker and utterance.
C22_WorkingColumnsDropped ==
  ~IsNull(output) =>
    /\ config # {}
    /\ Get(output).cols \cap WorkingCols = {}
    /\ {"speaker", "utterance"} \subseteq Get(output).cols
    /\ \A k \in DOMAIN Get(output).rows :
         \A c \in WorkingCols \cap StageCols :
           IsNull(Get(output).rows[k].cells[c])

\* A table has been written after stages that made the annotation,
\* formant, segment and pitch objects, and it holds a row's spectral tilt.
C22_Witness ==
  /\ pc = "done" /\ ~IsNull(output)
  /\ {OptVowel, OptFormants, OptTilt, OptHeights} \subseteq config
  /\ SegmentExtracted(OptTilt, 1)
  /\ "v1_tilt" \in Get(output).cols
  /\ ~IsNull(Get(output).rows[1].cells["v1_tilt"])

\* ---------------------------------------------------------------------- C23
\* The speaker's rows that hold a formant value.
RowsWithFormants(speaker) ==
  { r \in SpeakerRows(speaker) :
      /\ r \in DOMAIN data
      /\ \E c \in {"f1", "f2", "f3"} : ~IsNull(data[r][c]) }

\* C23: when the formant stage has left a speaker with exactly one row
\* holding formant values, the dispersion stage never gets past that
\* speaker: the run neither reaches a later stage nor the write, no table
\* is written, the speaker's dispersions stay null, and a failure in the
\* speaker's iteration is the division by n - 1 = 0 whenever the row holds
\* f1 and f2 (an index out of range when it holds f1 alone).
C23_SingleRowSpeakerAborts ==
  \A speaker \in Speakers :
    ( /\ OptDispersion \in config
      /\ Pos(At) > Pos(OptFormants)
      /\ Cardinality(RowsWithFormants(speaker)) = 1 ) =>
      /\ ~DispersionPassed(speaker)
      /\ Pos(At) <= Pos(OptDispersion)
      /\ IsNull(output)
      /\ \A r \in SpeakerRows(speaker) :
           \A c \in DispersionCols \cap cols : IsNull(data[r][c])
      /\ (pc = "aborted" /\ DispersionAt(speaker)) =>
           err.kind =
             IF CountOf(speaker, "f1") = 1 /\ CountOf(speaker, "f2") = 1
               THEN "ZeroDivisionError" ELSE "IndexError"

\* The stage has set the dispersions of a first speaker and then failed
\* with the division at a second speaker, who has one row with f1, f2 and
\* f3; nothing is written.
C23_Witness ==
  /\ pc = "aborted" /\ err.stage = OptDispersion
  /\ err.kind = "ZeroDivisionError"
  /\ IsNull(output)
  /\ \E first, second \in Speakers :
       /\ DispersionPassed(first)
       /\ \A r \in SpeakerRows(first) : ~IsNull(data[r]["f1_f2_dispersion"])
       /\ DispersionAt(second)
       /\ Cardinality(RowsWithFormants(second)) = 1
       /\ CountOf(second, "f3") = 1

\* ---------------------------------------------------------------------- C24
\* The first of the tier's points labelled "H".
FirstPeak(tier) ==
  CHOOSE p \in PeaksOf(tier) : \A q \in PeaksOf(tier) : p <= q

\* The labels of the tier's points, and the pitches at all of them but the
\* first.
LabelsOf(tier) == [p \in DOMAIN tier.items |-> tier.items[p].label]
LaterPitches(r) ==
  [p \in 2..3 |-> PitchAtPoint(r, ToneTier(r), p)]

\* C24: once the relative-heights stage has been over a row with an "f0"
\* tier of 3 points, exc_target_low_end is 12 * log2(pitch at the second
\* point / pitch at the third point); it equals exc_peak_low_end when the
\* point labelled "H" is the second; and two rows with the same labels,
\* neither "H" on the first point, and the same pitches at the second and
\* third points hold the same two outputs whatever the pitches at their
\* first points.
C24_TargetIsSecondPoint ==
  \A r \in Rows :
    (Passed(OptHeights, r) /\ TiersWith(r, "f0", 3) # {}) =>
      /\ data[r]["exc_target_low_end"] =
           Excursion(PitchAtPoint(r, ToneTier(r), 2),
                     PitchAtPoint(r, ToneTier(r), 3))
      /\ FirstPeak(ToneTier(r)) = 2 =>
           data[r]["exc_target_low_end"] = data[r]["exc_peak_low_end"]
      /\ \A q \in Rows :
           ( /\ Passed(OptHeights, q) /\ TiersWith(q, "f0", 3) # {}
             /\ LabelsOf(ToneTier(q)) = LabelsOf(ToneTier(r))
             /\ FirstPeak(ToneTier(r)) # 1
             /\ LaterPitches(q) = LaterPitches(r) ) =>
             RowTone(q) = RowTone(r)

\* The stage has been over two rows with the points (target, "H", "L%")
\* whose pitches differ at the first point only, and both hold the same
\* outputs, the target excursion equal to the peak excursion.
C24_Witness ==
  /\ Finished(OptHeights) /\ Len(files) = 2
  /\ \A r \in Rows :
       /\ TiersWith(r, "f0", 3) # {}
       /\ LabelsOf(ToneTier(r)) = << "T", "H", "L%" >>
       /\ RowTone(r) = << Val(Semitones(300, 140)), Val(Semitones(300, 140)) >>
  /\ PitchAtPoint(1, ToneTier(1), 1) # PitchAtPoint(2, ToneTier(2), 1)
  /\ LaterPitches(1) = LaterPitches(2)

\* ---------------------------------------------------------------------- C25
\* The center of gravity of the segment extracted from the row's sound
\* over its V1 span: what the stage computes without the spectral-tilt
\* stage before it.
SegmentCog(r) ==
  Val(LibMeasure("centre of gravity",
        Val(LibExtractPart(files[r].snd,
              LastNamed(r, "Vowel").items[2].t1,
              LastNamed(r, "Vowel").items[2].t2))))

\* C25: once the center-of-gravity stage has been over a row, with or
\* without the spectral-tilt stage before it, a row with a V1 span holds
\* the center of gravity of the segment of its sound over that span and
\* the stage has not warned about it; a row without a V1 span is null and
\* the stage has warned once about it.  The stage extracts a segment itself
\* exactly when the row has a span and the spectral-tilt stage is off.
C25_SameWithOrWithoutTilt ==
  \A r \in Rows :
    Passed(OptCog, r) =>
      /\ IF NoMeasurableVowel(r)
           THEN /\ IsNull(data[r]["v1_cog"])
                /\ Cardinality(WarningsAbout(OptCog, r)) = 1
                /\ WarnedAbout(OptCog, r)
           ELSE /\ data[r]["v1_cog"] = SegmentCog(r)
                /\ WarningsAbout(OptCog, r) = {}
      /\ SegmentExtracted(OptCog, r)
           <=> (~NoMeasurableVowel(r) /\ OptTilt \notin config)

\* The stage has run after the spectral-tilt stage, reusing the segment of
\* the second row and warning about the first, which has no V1 span.
C25_Witness ==
  /\ Finished(OptCog) /\ OptTilt \in config /\ Len(files) = 2
  /\ NoMeasurableVowel(1) /\ WarnedAbout(OptCog, 1)
  /\ ~NoMeasurableVowel(2)
  /\ SegmentExtracted(OptTilt, 2) /\ ~SegmentExtracted(OptCog, 2)
  /\ data[2]["v1_cog"] = SegmentCog(2)

=============================================================================
